---- MODULE Spec2Model ----
(***************************************************************************)
(* Model of the Medium scraper: the crawl orchestrator (MediumScraper),    *)
(* the author extractor's pagination loop (AuthorScraper), the standalone  *)
(* scrapeAuthor scroll loop, and the paywall detector/handler.             *)
(*                                                                         *)
(* Each component has its own specification over the shared variables:     *)
(*   SpecPaywall  PaywallDetector: detectPaywall, determinePaywallType,    *)
(*                handlePaywall                                            *)
(*   SpecAuthor   AuthorScraper.extractAuthorArticles + filterArticles +   *)
(*                the enqueue step of MediumScraper.handleAuthorPage       *)
(*   SpecScroll   the scroll loop of the standalone MediumScraper          *)
(*   Spec         MediumScraper.scrape(): queue, deliveries, statistics    *)
(*   FairSpec     Spec with the crawler's steps weakly fair                *)
(*   SpecProxy    ProxyManager: getCurrentProxy, getNextProxy,             *)
(*                markProxyFailed, markProxySuccess                        *)
(*   SpecRotation the preNavigationHooks of MediumScraper: when the proxy  *)
(*                and the user agent are rotated                           *)
(*   SpecRateLimiter  RateLimiter: waitForToken, refillTokens              *)
(*   SpecRetry    retry() and configureRetryMechanism().withRetry()        *)
(*   SpecClassify isAuthorPage / isArticlePage and handleRequest's         *)
(*                dispatch over url paths                                  *)
(*   SpecArticle  ArticleScraper.scrapeArticle: extractArticleInfo,        *)
(*                extractArticleContent; formatArticleData                 *)
(*   SpecProfile  AuthorScraper.waitForAuthorPage and extractAuthorInfo    *)
(*   SpecDate     ArticleScraper.parseArticleDate and formatDate           *)
(*   SpecShutdown gracefulShutdown and MediumScraper.cleanup against a     *)
(*                crawl that is running                                    *)
(*   SpecArticleTask  MediumScraper.handleArticlePage on one page          *)
(*   SpecScrollCall   configurePagination().handleInfiniteScroll           *)
(***************************************************************************)
EXTENDS Integers, Sequences, FiniteSets, TLC

VARIABLES
    \* ---- PaywallDetector calls (paywallHandler.js)
    pwIndicators,   \* argument of the last determinePaywallType call
    pwType,         \* its result
    pwInfo,         \* PaywallResult of the last detectPaywall call
    pwHandled,      \* outcome of the last handlePaywall call
    \* ---- MediumScraper (scrapers/MediumScraper.js) and the crawler it drives
    input,          \* this.input: maxPosts, sortBy, tags, dateRange, premiumContent
    pc,             \* position of scrape(): "start", "crawling", "results", ...
    queue,          \* the crawler's request queue (urls, FIFO)
    seen,           \* unique keys the queue has ever accepted
    retryCount,     \* request.retryCount per url
    cur,            \* the request being handled, 0 if none
    attempt,        \* handleRequest's local retryCount for that request
    failing,        \* request handed to failedRequestHandler, 0 if none
    dataset,        \* items pushed to the dataset, in order
    stats,          \* this.stats
    result,         \* what scrape() returned
    failedTasks,    \* urls whose request failed for good (history)
    flaky,          \* urls whose navigation or handling can throw (the environment)
    site,           \* how author pages behave (the environment): lazy, endless
    \* ---- the AuthorScraper of the request being handled
    eaPc,           \* "idle", "loop" (extractAuthorArticles), "done"
    eaLinks,        \* article links of the page in document order (urls)
    eaVisible,      \* how many of them the page has rendered so far
    eaLoop,         \* locals of extractAuthorArticles: articles, hasMore, scrollCount
    eaIter,         \* loop bodies executed (history)
    eaFiltered,     \* what filterArticles returned
    \* ---- the standalone MediumScraper.scrapeAuthor scroll loop
    saPc,           \* "idle", "loop", "done" or "threw"
    saMaxPosts,     \* this.maxPosts
    saPosts,        \* posts: the urls of the Post objects collected
    saHasMore,      \* hasMore
    saScrollAttempts, \* scrollAttempts
    saLastHeight,   \* lastHeight
    \* ---- the utilities, each explored by a specification of its own
    proxyManager,   \* the ProxyManager object (utils/proxyManager.js)
    pmLast,         \* the last ProxyManager call: op, argument, result, state before
    rotation,       \* the crawl as the preNavigationHooks see it (history)
    rateLimiter,    \* the RateLimiter object and its last call
    retryCall,      \* one call of retry() or withRetry(): its frame
    classified,     \* a url text and how handleRequest dispatched it
    articleCall,    \* one ArticleScraper.scrapeArticle call: page, input, result
    profileCall,    \* one waitForAuthorPage + extractAuthorInfo call
    dateCall,       \* one parseArticleDate / formatDate call
    \* ---- further parts, each explored by a specification of its own
    shutdown,       \* a crawl and the signal handler of main.js (gracefulShutdown)
    articleTask,    \* one handleArticlePage call: page, input, outcome
    scrollCall      \* one handleInfiniteScroll call: its locals and the heights seen

pwVars == <<pwIndicators, pwType, pwInfo, pwHandled>>
runVars == <<input, pc, queue, seen, retryCount, cur, attempt, failing,
             dataset, stats, result, failedTasks, flaky, site>>
eaVars == <<eaPc, eaLinks, eaVisible, eaLoop, eaIter, eaFiltered>>
saVars == <<saPc, saMaxPosts, saPosts, saHasMore, saScrollAttempts, saLastHeight>>
pmVars == <<proxyManager, pmLast>>
utVars == <<pmVars, rotation, rateLimiter, retryCall, classified,
            articleCall, profileCall, dateCall>>
xVars == <<shutdown, articleTask, scrollCall>>

Null == "null"

(***************************************************************************)
(* PaywallDetector                                                         *)
(***************************************************************************)

\* An indicator is represented by its type tag, the only field the code
\* reads; Null is a detector that found nothing.
NumDetectors == 5

\* Promise.all order of the five detectors and the type each one reports.
DetectorType ==
    <<"premium", "member_only", "subscription_prompt",
      "content_truncation", "login_required">>

\* Type tags determinePaywallType can meet: the five known ones and any
\* other tag.
IndicatorTags ==
    {"premium", "member_only", "subscription_prompt", "login_required",
     "content_truncation", "other"}

RECURSIVE SelectSeqNonNull(_)
SelectSeqNonNull(s) ==
    IF s = <<>> THEN <<>>
    ELSE IF Head(s) = Null THEN SelectSeqNonNull(Tail(s))
         ELSE <<Head(s)>> \o SelectSeqNonNull(Tail(s))

\* types.includes(t)
Includes(types, t) == \E i \in 1..Len(types) : types[i] = t

\* A faulty variant: login_required is tested before the other types.
determinePaywallTypeLoginFirst(indicators) ==
    LET types == SelectSeqNonNull(indicators) IN
    IF Len(types) = 0 THEN Null
    ELSE IF Includes(types, "premium") THEN "premium"
    ELSE IF Includes(types, "member_only") THEN "member_only"
    ELSE IF Includes(types, "login_required") THEN "login_required"
    ELSE IF Includes(types, "subscription_prompt") THEN "subscription_prompt"
    ELSE IF Includes(types, "content_truncation") THEN "content_truncation"
    ELSE "unknown"

determinePaywallType(indicators) ==
    LET types == SelectSeqNonNull(indicators) IN
    IF Len(types) = 0 THEN Null
    ELSE IF Includes(types, "premium") THEN "premium"
    ELSE IF Includes(types, "member_only") THEN "member_only"
    ELSE IF Includes(types, "subscription_prompt") THEN "subscription_prompt"
    ELSE IF Includes(types, "login_required") THEN "login_required"
    ELSE IF Includes(types, "content_truncation") THEN "content_truncation"
    ELSE "unknown"

\* Confidence is kept in hundredths: 0.25 is 25, 1.0 is 100.
ConfidenceStep == 25
ConfidenceMax == 100

Min(a, b) == IF a < b THEN a ELSE b

\* A faulty variant: the sum without Math.min.
calculateConfidenceUncapped(indicators) ==
    Len(SelectSeqNonNull(indicators)) * ConfidenceStep

calculateConfidence(indicators) ==
    Min(Len(SelectSeqNonNull(indicators)) * ConfidenceStep, ConfidenceMax)

\* found[i] says whether detector i found its signal; failed is an exception
\* escaping the try block of detectPaywall.
detectPaywall(found, failed) ==
    IF failed
    THEN [hasPaywall |-> FALSE, paywallType |-> Null, indicators |-> <<>>,
          confidence |-> 0, error |-> TRUE]
    ELSE LET paywallIndicators ==
                 [i \in 1..NumDetectors |->
                     IF found[i] THEN DetectorType[i] ELSE Null]
             paywallType == determinePaywallType(paywallIndicators)
         IN [hasPaywall |-> paywallType # Null,
             paywallType |-> paywallType,
             indicators |-> paywallIndicators,
             confidence |-> calculateConfidence(paywallIndicators),
             error |-> FALSE]

(***************************************************************************)
(* handlePaywall and its handlers.  What the page does is the argument     *)
(* `page`:                                                                 *)
(*   evalThrows  page.evaluate rejects (closed page, navigation, ...)      *)
(*   contentLen  length of the text extractPartialContent collects         *)
(*   accessible  what handleMemberOnlyContent's evaluate returns: Null,    *)
(*               the empty string ("empty") or some text ("text")          *)
(*   buttons     per close-button selector: "absent", "throws" (page.$,    *)
(*               isVisible or click rejects) or "clicked"                  *)
(* A handler result is [raised, success, method]; raised = TRUE stands     *)
(* for an exception leaving the function.                                  *)
(***************************************************************************)
PartialMinLen == 50        \* content.length > 50 ? content : null
PremiumMinLen == 100       \* partialContent.length > 100
NumCloseSelectors == 6

Failure == [raised |-> FALSE, success |-> FALSE, method |-> "none"]
Success(m) == [raised |-> FALSE, success |-> TRUE, method |-> m]
Raise == [raised |-> TRUE, success |-> FALSE, method |-> "none"]

\* The content is represented by its length; 0 stands for the null result.
extractPartialContent(page) ==
    IF page.evalThrows THEN 0                             \* catch: return null
    ELSE IF page.contentLen > PartialMinLen THEN page.contentLen ELSE 0

handlePremiumContent(page) ==
    LET partialContent == extractPartialContent(page) IN
    IF partialContent # 0 /\ partialContent > PremiumMinLen
    THEN Success("partial_content_extraction")
    ELSE Failure

\* try { ... } catch (error) { return {success: false, reason} }
Caught(r) == IF r.raised THEN Failure ELSE r

handleMemberOnlyContent(page) ==
    Caught(IF page.evalThrows THEN Raise                 \* page.evaluate rejects
           ELSE IF page.accessible = "text"              \* if (accessibleContent)
                THEN Success("accessible_content_extraction")
                ELSE Failure)

RECURSIVE handleSubscriptionPromptFrom(_, _)
handleSubscriptionPromptFrom(page, i) ==
    IF i > NumCloseSelectors THEN Failure
    ELSE IF page.buttons[i] = "clicked" /\ extractPartialContent(page) # 0
         THEN Success("prompt_dismissal")
         ELSE handleSubscriptionPromptFrom(page, i + 1)   \* absent, or continue

handleSubscriptionPrompt(page) == handleSubscriptionPromptFrom(page, 1)

handleLoginRequirement(page) ==
    IF extractPartialContent(page) # 0
    THEN Success("public_content_extraction")
    ELSE Failure

\* A faulty variant: the default branch reports success.
handlePaywallDefaultSucceeds(graceful, paywallType, page) ==
    IF ~graceful THEN Failure
    ELSE Caught(
        CASE paywallType = "premium" -> handlePremiumContent(page)
          [] paywallType = "member_only" -> handleMemberOnlyContent(page)
          [] paywallType = "subscription_prompt" -> handleSubscriptionPrompt(page)
          [] paywallType = "login_required" -> handleLoginRequirement(page)
          [] OTHER -> Success("none"))

handlePaywall(graceful, paywallType, page) ==
    IF ~graceful THEN Failure
    ELSE Caught(
        CASE paywallType = "premium" -> handlePremiumContent(page)
          [] paywallType = "member_only" -> handleMemberOnlyContent(page)
          [] paywallType = "subscription_prompt" -> handleSubscriptionPrompt(page)
          [] paywallType = "login_required" -> handleLoginRequirement(page)
          [] OTHER -> Failure)

\* Page behaviours the handlers are run against.
ContentLens == {0, 50, 51, 100, 101}
AccessibleValues == {Null, "empty", "text"}
ButtonOutcomes == {"absent", "throws", "clicked"}
Pages ==
    [evalThrows : BOOLEAN, contentLen : ContentLens,
     accessible : AccessibleValues,
     buttons : [1..NumCloseSelectors -> ButtonOutcomes]]

\* Every type a PaywallResult can carry; Null is "none".
PaywallTypes ==
    {Null, "premium", "member_only", "subscription_prompt", "login_required",
     "content_truncation", "unknown"}

PwIdle == [op |-> "idle"]

PwInit ==
    /\ pwIndicators = <<>>
    /\ pwType = Null
    /\ pwInfo = PwIdle
    /\ pwHandled = PwIdle

PwIsIdle == pwInfo = PwIdle /\ pwHandled = PwIdle /\ pwIndicators = <<>>

\* One call of detectPaywall(page).
DetectPaywall ==
    /\ PwIsIdle
    /\ \E found \in [1..NumDetectors -> BOOLEAN], failed \in BOOLEAN :
        /\ pwInfo' = [op |-> "detect"] @@ detectPaywall(found, failed)
        /\ pwIndicators' = <<>>
        /\ pwType' = Null
        /\ pwHandled' = PwIdle
    /\ UNCHANGED <<runVars, eaVars, saVars, utVars, xVars>>

\* One call of determinePaywallType(indicators) on any indicator array.
DeterminePaywallType ==
    /\ PwIsIdle
    /\ \E ind \in [1..NumDetectors -> IndicatorTags \cup {Null}] :
        /\ pwIndicators' = ind
        /\ pwType' = determinePaywallType(ind)
        /\ pwInfo' = PwIdle
        /\ pwHandled' = PwIdle
    /\ UNCHANGED <<runVars, eaVars, saVars, utVars, xVars>>

\* One call of handlePaywall(page, paywallInfo).
HandlePaywall ==
    /\ PwIsIdle
    /\ \E graceful \in BOOLEAN, t \in PaywallTypes, page \in Pages :
        /\ pwHandled' =
              [op |-> "handle", graceful |-> graceful, paywallType |-> t,
               pageFailed |-> (page.evalThrows
                               \/ \E i \in 1..NumCloseSelectors :
                                     page.buttons[i] = "throws"),
               result |-> handlePaywall(graceful, t, page)]
        /\ pwInfo' = PwIdle
        /\ pwIndicators' = <<>>
        /\ pwType' = Null
    /\ UNCHANGED <<runVars, eaVars, saVars, utVars, xVars>>

\* The caller has consumed the result; the detector is ready for a new call.
PwReturn ==
    /\ ~PwIsIdle
    /\ pwIndicators' = <<>>
    /\ pwType' = Null
    /\ pwInfo' = PwIdle
    /\ pwHandled' = PwIdle
    /\ UNCHANGED <<runVars, eaVars, saVars, utVars, xVars>>

PwNext == DetectPaywall \/ DeterminePaywallType \/ HandlePaywall \/ PwReturn

(***************************************************************************)
(* URLs.  A url is an index into UrlText; its text is a sequence of        *)
(* characters, so that the classifier's substring and pattern tests are    *)
(* computed on it.                                                         *)
(***************************************************************************)
Origin == <<"h","t","t","p","s",":","/","/","m",".","c","o","m">>
HexId == <<"0","1","2","3","4","5","6","7","8","9","a","b">>

UrlText ==
    << \* 1  https://m.com/@ann                       the author's profile
       Origin \o <<"/","@","a","n","n">>,
       \* 2  https://m.com/@ann/0123456789ab
       Origin \o <<"/","@","a","n","n","/">> \o HexId,
       \* 3  https://m.com/p/0123456789ab?s=1
       Origin \o <<"/","p","/">> \o HexId \o <<"?","s","=","1">>,
       \* 4  https://m.com/p/0123456789ab?s=2
       Origin \o <<"/","p","/">> \o HexId \o <<"?","s","=","2">>,
       \* 5  https://m.com/p/0123456789ab
       Origin \o <<"/","p","/">> \o HexId,
       \* 6  https://m.com/@ann/my-0123456789ab
       Origin \o <<"/","@","a","n","n","/","m","y","-">> \o HexId,
       \* 7  https://m.com/about
       Origin \o <<"/","a","b","o","u","t">> >>

Urls == 1..Len(UrlText)
SeedUrl == 1

\* page.url() after navigating to a url: 3 and 4 are the same article
\* reached through two tracking links, and both land on 5.
FinalUrl == <<1, 2, 5, 5, 5, 6, 7>>

\* The date text of a url's summary card as new Date() reads it: 0 is an
\* Invalid Date (no time element, or a text Date cannot parse).
SummaryDate == <<0, 2, 1, 3, 1, 0, 2>>

\* Urls an author page can list as article links.
LinkUrls == {2, 3, 4, 6, 7}

\* Urls that can be requested.
QueueUrls == LinkUrls \cup {SeedUrl}

\* url.includes(sub)
IncludesText(text, sub) ==
    \E i \in 1..(Len(text) - Len(sub) + 1) :
        SubSeq(text, i, i + Len(sub) - 1) = sub

HexChars ==
    {"0","1","2","3","4","5","6","7","8","9","a","b","c","d","e","f"}
HexIdMinLen == 12

\* url.match(/\/[a-f0-9]{12,}$/)
MatchesHexTail(text) ==
    \E i \in 1..Len(text) :
        /\ text[i] = "/"
        /\ Len(text) - i >= HexIdMinLen
        /\ \A k \in (i + 1)..Len(text) : text[k] \in HexChars

\* isAuthorPage and isArticlePage on the text of a url
isAuthorText(text) ==
    /\ IncludesText(text, <<"/","@">>)
    /\ ~IncludesText(text, <<"/","p","/">>)
    /\ ~MatchesHexTail(text)

isArticleText(text) ==
    \/ IncludesText(text, <<"/","p","/">>)
    \/ MatchesHexTail(text)
    \/ IncludesText(text, <<"/","s","t","o","r","y","/">>)

isAuthorPage(u) == isAuthorText(UrlText[u])

isArticlePage(u) == isArticleText(UrlText[u])

(***************************************************************************)
(* AuthorScraper: extractAuthorArticles and filterArticles                 *)
(***************************************************************************)
maxScrolls == 10

\* One entry of extractArticlesFromCurrentView's result for a link that has
\* a title and a url; claps, responses, tags and isPremium are the literals
\* the function writes.
Summary(u) ==
    [url |-> u, date |-> SummaryDate[u], claps |-> 0, responses |-> 0,
     tags |-> {}, isPremium |-> FALSE]

extractArticlesFromCurrentView(links, evalThrows) ==
    IF evalThrows THEN <<>>
    ELSE [i \in 1..Len(links) |-> Summary(links[i])]

\* currentArticles.filter(a => !articles.some(e => e.url === a.url))
NewArticles(articles, currentArticles) ==
    LET fresh(a) == ~\E i \in 1..Len(articles) : articles[i].url = a.url
    IN SelectSeq(currentArticles, fresh)

LoopStart == [articles |-> <<>>, hasMore |-> TRUE, scrollCount |-> 0, broke |-> FALSE]

\* A faulty variant: scrollCount <= maxScrolls.
LoopCondOffByOne(ls, maxPosts) ==
    /\ ~ls.broke
    /\ ls.hasMore
    /\ ls.scrollCount <= maxScrolls
    /\ Len(ls.articles) < maxPosts

\* while (hasMore && scrollCount < maxScrolls && articles.length < maxPosts)
LoopCond(ls, maxPosts) ==
    /\ ~ls.broke
    /\ ls.hasMore
    /\ ls.scrollCount < maxScrolls
    /\ Len(ls.articles) < maxPosts

\* One pass through the loop body: currentArticles is what the view shows,
\* more is what loadMoreArticles returns.
LoopBody(ls, currentArticles, more, maxPosts) ==
    LET articles == ls.articles \o NewArticles(ls.articles, currentArticles) IN
    IF Len(articles) >= maxPosts
    THEN [ls EXCEPT !.articles = articles, !.broke = TRUE]
    ELSE [ls EXCEPT !.articles = articles, !.hasMore = more,
                    !.scrollCount = ls.scrollCount + 1]

\* Tag filter: article.tags empty drops the article; a requested tag matches
\* an article tag when one contains the other, which for the one-word tags
\* used here is equality.
TagStage(articles, inp) ==
    IF inp.tags = {} THEN articles
    ELSE LET keep(a) == a.tags # {} /\ (a.tags \cap inp.tags) # {}
         IN SelectSeq(articles, keep)

\* A faulty variant: an article whose date cannot be read is dropped.
DateStageFailClosed(articles, inp) ==
    IF ~inp.dateRange.given THEN articles
    ELSE LET keep(a) ==
                 /\ a.date # 0
                 /\ ~(inp.dateRange.start # 0 /\ a.date < inp.dateRange.start)
                 /\ ~(inp.dateRange.end # 0 /\ a.date > inp.dateRange.end)
         IN SelectSeq(articles, keep)

\* Date filter: dates are numbers, 0 an Invalid Date (every comparison with
\* it is false); a start or end of 0 is one that is not given.
DateStage(articles, inp) ==
    IF ~inp.dateRange.given THEN articles
    ELSE LET keep(a) ==
                 /\ ~(inp.dateRange.start # 0 /\ a.date # 0
                      /\ a.date < inp.dateRange.start)
                 /\ ~(inp.dateRange.end # 0 /\ a.date # 0
                      /\ a.date > inp.dateRange.end)
         IN SelectSeq(articles, keep)

PremiumStage(articles, inp) ==
    IF inp.premiumContent THEN articles
    ELSE LET keep(a) == ~a.isPremium IN SelectSeq(articles, keep)

\* The comparator's sign: a sorts strictly before b.  A NaN difference (an
\* Invalid Date on either side) counts as 0, as Array.prototype.sort takes it.
SortsBefore(a, b, sortBy) ==
    IF sortBy = "popular"
    THEN (b.claps + b.responses) - (a.claps + a.responses) < 0
    ELSE IF a.date = 0 \/ b.date = 0 THEN FALSE
    ELSE IF sortBy = "oldest" THEN a.date - b.date < 0
    ELSE b.date - a.date < 0

\* Stable insertion of x into a sorted sequence: x goes in front of the
\* longest suffix of elements it sorts strictly before.
RECURSIVE InsertStable(_, _, _)
InsertStable(sorted, x, sortBy) ==
    IF sorted = <<>> THEN <<x>>
    ELSE LET last == sorted[Len(sorted)] IN
         IF SortsBefore(x, last, sortBy)
         THEN Append(InsertStable(SubSeq(sorted, 1, Len(sorted) - 1), x, sortBy), last)
         ELSE Append(sorted, x)

RECURSIVE StableSort(_, _)
StableSort(list, sortBy) ==
    IF list = <<>> THEN <<>>
    ELSE InsertStable(StableSort(SubSeq(list, 1, Len(list) - 1), sortBy),
                      list[Len(list)], sortBy)

\* The comparator is consistent unless an Invalid Date sits among two
\* different valid dates ("equal" to both, which differ).
ComparatorConsistent(list, sortBy) ==
    LET dates == {list[i].date : i \in 1..Len(list)} IN
    \/ sortBy = "popular"
    \/ 0 \notin dates
    \/ Cardinality(dates \ {0}) <= 1

SeqPermutations(list) ==
    LET n == Len(list)
        bij == {f \in [1..n -> 1..n] : \A i, j \in 1..n : f[i] = f[j] => i = j}
    IN {[i \in 1..n |-> list[f[i]]] : f \in bij}

\* A faulty variant: the list is left in discovery order.
SortOutcomesUnsorted(list, sortBy) == {list}

\* filtered.sort(comparator): the stable sort, or, with an inconsistent
\* comparator, an order the engine is free to choose.
SortOutcomes(list, sortBy) ==
    IF ComparatorConsistent(list, sortBy) THEN {StableSort(list, sortBy)}
    ELSE SeqPermutations(list)

\* list.slice(0, n)
Slice(list, n) == SubSeq(list, 1, Min(Len(list), n))

\* Every value filterArticles(articles) can return.
filterArticles(articles, inp) ==
    LET filtered == PremiumStage(DateStage(TagStage(articles, inp), inp), inp)
    IN {Slice(s, inp.maxPosts) : s \in SortOutcomes(filtered, inp.sortBy)}

\* The queue after addRequests([{url}]) for each url in turn: a url whose
\* unique key the queue has seen is dropped.
RECURSIVE AddRequests(_, _)
AddRequests(q, urls) ==
    IF urls = <<>> THEN q
    ELSE IF Head(urls) \in q.seen THEN AddRequests(q, Tail(urls))
         ELSE AddRequests([queue |-> Append(q.queue, Head(urls)),
                           seen |-> q.seen \cup {Head(urls)}], Tail(urls))

\* handleAuthorPage: authorData.articles.slice(0, maxPosts).map(a => a.url)
ArticleUrls(articles, inp) ==
    LET top == Slice(articles, inp.maxPosts)
    IN [i \in 1..Len(top) |-> top[i].url]

(***************************************************************************)
(* MediumScraper.scrape() and the crawler                                  *)
(***************************************************************************)
maxRetries == 3             \* handleRequest's local ceiling
maxRequestRetries == 5      \* the crawler's re-deliveries of a failed request

\* A variant of the logger that has the method handleRequest calls.
LoggerDefinesWarning == TRUE

\* ScrapingLogger defines info, warn, error and debug, and no warning():
\* this.logger.warning(...) in handleRequest throws a TypeError.
LoggerHasWarning == FALSE

\* Bounds of the model.
MaxPosts == 2               \* input.maxPosts ranges over 1..MaxPosts
MaxLinks == 2               \* article links on a page of a run
MaxFlaky == 1               \* urls whose navigation or handling can throw

NoDateRange == [given |-> FALSE, start |-> 0, end |-> 0]
NoResult == [kind |-> "none"]
StatsStart ==
    [totalArticles |-> 0, successfulExtractions |-> 0, paywallHits |-> 0,
     errors |-> 0]

SeqsUpTo(S, n) == UNION {[1..k -> S] : k \in 0..n}

\* Inputs of the runs that are explored.
RunInputs ==
    [maxPosts : 1..MaxPosts, sortBy : {"latest"}, tags : {{}},
     dateRange : {NoDateRange}, premiumContent : BOOLEAN]

EaIdle ==
    /\ eaPc = "idle"
    /\ eaLinks = <<>>
    /\ eaVisible = 0
    /\ eaLoop = LoopStart
    /\ eaIter = 0
    /\ eaFiltered = <<>>

\* The handler's AuthorScraper goes out of scope.
EaDiscard ==
    /\ eaPc' = "idle"
    /\ eaLinks' = <<>>
    /\ eaVisible' = 0
    /\ eaLoop' = LoopStart
    /\ eaIter' = 0
    /\ eaFiltered' = <<>>

Sites == [lazy : BOOLEAN, endless : BOOLEAN]
StaticSite == [lazy |-> FALSE, endless |-> FALSE]

\* The state after new MediumScraper(input), on a site of static pages.
RunInit ==
    /\ input \in RunInputs
    /\ site = StaticSite
    /\ pc = "start"
    /\ queue = <<>>
    /\ seen = {}
    /\ retryCount = [u \in Urls |-> 0]
    /\ cur = 0
    /\ attempt = 0
    /\ failing = 0
    /\ dataset = <<>>
    /\ stats = StatsStart
    /\ result = NoResult
    /\ failedTasks = {}
    /\ flaky \in {S \in SUBSET QueueUrls : Cardinality(S) <= MaxFlaky}
    /\ EaIdle

\* scrape(): initialize() succeeded and the author url is enqueued.
ScrapeStart ==
    /\ pc = "start"
    /\ pc' = "crawling"
    /\ LET q == AddRequests([queue |-> queue, seen |-> seen], <<SeedUrl>>)
       IN queue' = q.queue /\ seen' = q.seen
    /\ UNCHANGED <<input, retryCount, cur, attempt, failing, dataset, stats,
                   result, failedTasks, flaky, site, eaVars>>
    /\ UNCHANGED <<pwVars, saVars, utVars, xVars>>

\* scrape(): initialize() threw (validateInput, Dataset.open, the browser);
\* scrape() logs, runs cleanup() and rethrows.
ScrapeInitFails ==
    /\ pc = "start"
    /\ pc' = "threw"
    /\ UNCHANGED <<input, queue, seen, retryCount, cur, attempt, failing,
                   dataset, stats, result, failedTasks, flaky, site, eaVars>>
    /\ UNCHANGED <<pwVars, saVars, utVars, xVars>>

\* The crawler takes the next request, navigates and calls requestHandler;
\* handleRequest starts with retryCount = 0 and no AuthorScraper.
Deliver ==
    /\ pc = "crawling" /\ cur = 0 /\ failing = 0 /\ queue # <<>>
    /\ cur' = Head(queue)
    /\ queue' = Tail(queue)
    /\ attempt' = 0
    /\ EaDiscard
    /\ UNCHANGED <<input, pc, seen, retryCount, failing, dataset, stats,
                   result, failedTasks, flaky, site>>
    /\ UNCHANGED <<pwVars, saVars, utVars, xVars>>

\* What the crawler does with a request u whose navigation or handler threw
\* (q is the queue without u): reclaim it with retryCount + 1, or hand it to
\* failedRequestHandler once retryCount has reached maxRequestRetries.
RequestFailed(u, q) ==
    /\ cur' = 0
    /\ attempt' = 0
    /\ IF retryCount[u] < maxRequestRetries
       THEN /\ retryCount' = [retryCount EXCEPT ![u] = @ + 1]
            /\ queue' = Append(q, u)
            /\ failing' = 0
            /\ failedTasks' = failedTasks
       ELSE /\ retryCount' = retryCount
            /\ queue' = q
            /\ failing' = u
            /\ failedTasks' = failedTasks \cup {u}

\* The crawler takes the next request and the navigation fails.
NavigationFails ==
    /\ pc = "crawling" /\ cur = 0 /\ failing = 0 /\ queue # <<>>
    /\ Head(queue) \in flaky
    /\ RequestFailed(Head(queue), Tail(queue))
    /\ EaDiscard
    /\ UNCHANGED <<flaky, site>>
    /\ UNCHANGED <<input, pc, seen, dataset, stats, result>>
    /\ UNCHANGED <<pwVars, saVars, utVars, xVars>>

\* A faulty variant: the failure of one request ends crawler.run(), and
\* scrape() rethrows it.
FailedRequestHandlerAborts ==
    /\ failing # 0
    /\ pc' = "threw"
    /\ failing' = 0
    /\ UNCHANGED <<input, queue, seen, retryCount, cur, attempt, dataset,
                   stats, result, failedTasks, flaky, site, eaVars>>
    /\ UNCHANGED <<pwVars, saVars, utVars, xVars>>

\* failedRequestHandler({request, error})
FailedRequestHandler ==
    /\ failing # 0
    /\ stats' = [stats EXCEPT !.errors = @ + 1]
    /\ failing' = 0
    /\ UNCHANGED <<input, pc, queue, seen, retryCount, cur, attempt, dataset,
                   result, failedTasks, flaky, site, eaVars>>
    /\ UNCHANGED <<pwVars, saVars, utVars, xVars>>

\* The catch block of handleRequest's while loop, entered with the
\* statistics st the try block left behind.  retryCount++ is followed by
\* this.logger.warning(...): without that method the TypeError leaves
\* handleRequest at once; with it the loop retries until maxRetries, then
\* counts the error and rethrows.
CatchInHandler(st) ==
    /\ UNCHANGED <<flaky, site>>
    /\ IF LoggerHasWarning /\ attempt + 1 < maxRetries
       THEN /\ attempt' = attempt + 1
            /\ stats' = st
            /\ UNCHANGED <<cur, queue, retryCount, failing, failedTasks>>
       ELSE /\ stats' = IF LoggerHasWarning
                        THEN [st EXCEPT !.errors = @ + 1]
                        ELSE st
            /\ RequestFailed(cur, queue)

\* The try block ran to its break (or returned): the request is handled,
\* leaving the statistics st and the queue q.
HandlerDone(st, q) ==
    /\ cur' = 0
    /\ attempt' = 0
    /\ stats' = st
    /\ queue' = q
    /\ UNCHANGED <<retryCount, failing, failedTasks, flaky, site>>

\* page.isClosed(): the branch logs with this.logger.warning and returns.
PageClosed ==
    /\ cur # 0 /\ eaPc # "loop"
    /\ cur \in flaky
    /\ IF LoggerHasWarning THEN HandlerDone(stats, queue)
       ELSE CatchInHandler(stats)
    /\ UNCHANGED <<input, pc, seen, dataset, result, eaVars>>
    /\ UNCHANGED <<pwVars, saVars, utVars, xVars>>

\* handleAuthorPage: new AuthorScraper(page, input).scrapeAuthor() reaches
\* extractAuthorArticles; links is what the page lists.
StartAuthorScrape ==
    /\ cur # 0 /\ eaPc # "loop"
    /\ isAuthorPage(cur)
    /\ \E links \in SeqsUpTo(LinkUrls, MaxLinks) :
          eaLinks' = links
    /\ eaPc' = "loop"
    /\ eaVisible' = 0
    /\ eaLoop' = LoopStart
    /\ eaIter' = 0
    /\ eaFiltered' = <<>>
    /\ UNCHANGED runVars
    /\ UNCHANGED <<pwVars, saVars, utVars, xVars>>

\* One iteration of extractAuthorArticles' loop: the page has rendered its
\* first n links (never fewer than before; all of them unless the site
\* renders lazily), the in-page extraction may fail, and loadMoreArticles
\* reports more (false unless the site always has a button or a bottom to
\* scroll to).
EaIterate ==
    /\ eaPc = "loop"
    /\ LoopCond(eaLoop, input.maxPosts)
    /\ \E n \in (IF site.lazy THEN eaVisible ELSE Len(eaLinks))..Len(eaLinks),
          evalThrows \in BOOLEAN,
          more \in (IF site.endless THEN BOOLEAN ELSE {FALSE}) :
          /\ eaVisible' = n
          /\ eaLoop' = LoopBody(eaLoop,
                          extractArticlesFromCurrentView(SubSeq(eaLinks, 1, n),
                                                         evalThrows),
                          more, input.maxPosts)
    /\ eaIter' = eaIter + 1
    /\ UNCHANGED <<runVars, eaPc, eaLinks, eaFiltered>>
    /\ UNCHANGED <<pwVars, saVars, utVars, xVars>>

\* scrapeAuthor or the dataset throws while the author page is handled (the
\* wait in the loop rejects, pushData rejects).
AuthorThrows ==
    /\ eaPc = "loop"
    /\ cur \in flaky
    /\ EaDiscard
    /\ CatchInHandler(stats)
    /\ UNCHANGED <<input, pc, seen, dataset, result>>
    /\ UNCHANGED <<pwVars, saVars, utVars, xVars>>

\* The loop has ended: filterArticles, scrapeAuthor returns, handleAuthorPage
\* stores the author and enqueues the article urls.
AuthorScraped ==
    /\ eaPc = "loop"
    /\ ~LoopCond(eaLoop, input.maxPosts)
    /\ \E filtered \in filterArticles(eaLoop.articles, input) :
          LET q == AddRequests([queue |-> queue, seen |-> seen],
                               ArticleUrls(filtered, input))
          IN /\ eaFiltered' = filtered
             /\ seen' = q.seen
             /\ HandlerDone(stats, q.queue)
    /\ dataset' = Append(dataset, [type |-> "author", url |-> FinalUrl[cur]])
    /\ eaPc' = "done"
    /\ UNCHANGED <<input, pc, result,
                   eaLinks, eaVisible, eaLoop, eaIter>>
    /\ UNCHANGED <<pwVars, saVars, utVars, xVars>>

\* this.paywallDetector = new PaywallDetector({handlePaywallGracefully: true})
handlePaywallGracefully == TRUE

NotHandled == [raised |-> FALSE, success |-> FALSE, method |-> "not handled"]

\* A faulty variant: a paywalled page whose handling failed is skipped
\* whatever premiumContent is.
handleArticlePageSkipsPremium(found, detectFails, page, premiumContent, scrapeThrows, pushThrows, st) ==
    LET paywallInfo == detectPaywall(found, detectFails)
        st1 == IF paywallInfo.hasPaywall
               THEN [st EXCEPT !.paywallHits = @ + 1]
               ELSE st
        paywallResult ==
            IF paywallInfo.hasPaywall
            THEN handlePaywall(handlePaywallGracefully,
                               paywallInfo.paywallType, page)
            ELSE NotHandled
        skip == paywallInfo.hasPaywall /\ ~paywallResult.success
        st2 == [st1 EXCEPT !.successfulExtractions = @ + 1]
        st3 == [st2 EXCEPT !.totalArticles = @ + 1]
    IN [paywallInfo |-> paywallInfo, paywallResult |-> paywallResult,
        outcome |-> IF skip THEN "skipped"
                    ELSE IF scrapeThrows \/ pushThrows THEN "threw"
                    ELSE "stored",
        stats |-> IF skip \/ scrapeThrows THEN st1
                  ELSE IF pushThrows THEN st2
                  ELSE st3]

\* handleArticlePage(page, url) on the statistics st.  found and
\* detectFails are what the detectors meet, page is what the paywall
\* handlers meet; scrapeThrows: scrapeArticle() throws; pushThrows:
\* dataset.pushData rejects.  The outcome is "skipped" (the return at the
\* paywall), "threw" (the catch rethrows) or "stored" (the record is
\* pushed and the article counted).
handleArticlePage(found, detectFails, page, premiumContent, scrapeThrows, pushThrows, st) ==
    LET paywallInfo == detectPaywall(found, detectFails)
        st1 == IF paywallInfo.hasPaywall
               THEN [st EXCEPT !.paywallHits = @ + 1]
               ELSE st
        paywallResult ==
            IF paywallInfo.hasPaywall
            THEN handlePaywall(handlePaywallGracefully,
                               paywallInfo.paywallType, page)
            ELSE NotHandled
        skip == /\ paywallInfo.hasPaywall
                /\ ~paywallResult.success
                /\ ~premiumContent
        st2 == [st1 EXCEPT !.successfulExtractions = @ + 1]
        st3 == [st2 EXCEPT !.totalArticles = @ + 1]
    IN [paywallInfo |-> paywallInfo, paywallResult |-> paywallResult,
        outcome |-> IF skip THEN "skipped"
                    ELSE IF scrapeThrows \/ pushThrows THEN "threw"
                    ELSE "stored",
        stats |-> IF skip \/ scrapeThrows THEN st1
                  ELSE IF pushThrows THEN st2
                  ELSE st3]

\* Detector outcomes and pages the runs are explored with.
RunFound ==
    {f \in [1..NumDetectors -> BOOLEAN] :
        Cardinality({i \in 1..NumDetectors : f[i]}) <= 1}
RunPages ==
    [contentLen : {0, 101}, accessible : {Null}, evalThrows : {FALSE},
     buttons : {[i \in 1..NumCloseSelectors |-> "absent"]}]

\* handleArticlePage(page, url), then the end of handleRequest's try block.
HandleArticlePage ==
    /\ cur # 0 /\ eaPc # "loop"
    /\ ~isAuthorPage(cur) /\ isArticlePage(cur)
    /\ \E found \in RunFound, page \in RunPages,
          scrapeThrows \in BOOLEAN, pushThrows \in BOOLEAN :
          LET r == handleArticlePage(found, FALSE, page, input.premiumContent,
                                     scrapeThrows, pushThrows, stats)
          IN IF r.outcome = "skipped"
             THEN /\ HandlerDone(r.stats, queue)
                  /\ dataset' = dataset
             ELSE IF r.outcome = "threw"
             THEN /\ cur \in flaky
                  /\ CatchInHandler(r.stats)
                  /\ dataset' = dataset
             ELSE /\ HandlerDone(r.stats, queue)
                  /\ dataset' = Append(dataset,
                                   [type |-> "article", url |-> FinalUrl[cur]])
    /\ UNCHANGED <<input, pc, seen, result, eaVars>>
    /\ UNCHANGED <<pwVars, saVars, utVars, xVars>>

\* Neither pattern matches: log.warning('Unknown page type') and break.
HandleUnknownPage ==
    /\ cur # 0 /\ eaPc # "loop"
    /\ ~isAuthorPage(cur) /\ ~isArticlePage(cur)
    /\ HandlerDone(stats, queue)
    /\ UNCHANGED <<input, pc, seen, dataset, result, eaVars>>
    /\ UNCHANGED <<pwVars, saVars, utVars, xVars>>

\* crawler.run() resolves: no request is queued or in flight.
CrawlerFinished ==
    /\ pc = "crawling" /\ queue = <<>> /\ cur = 0 /\ failing = 0
    /\ pc' = "results"
    /\ EaDiscard
    /\ UNCHANGED <<input, queue, seen, retryCount, cur, attempt, failing,
                   dataset, stats, result, failedTasks, flaky, site>>
    /\ UNCHANGED <<pwVars, saVars, utVars, xVars>>

ItemsOfType(items, t) ==
    LET is(item) == item.type = t IN SelectSeq(items, is)

UrlsOf(items) == [i \in 1..Len(items) |-> items[i].url]

\* getResults(): the author is the url of the first author item, 0 if none.
getResults(items, st, getDataThrows) ==
    IF getDataThrows
    THEN [kind |-> "fallback", author |-> 0, articles |-> <<>>, stats |-> st]
    ELSE [kind |-> "results",
          author |-> IF ItemsOfType(items, "author") = <<>> THEN 0
                     ELSE ItemsOfType(items, "author")[1].url,
          articles |-> UrlsOf(ItemsOfType(items, "article")),
          stats |-> st]

\* scrape() after crawler.run(): getResults(), then cleanup() in the finally
\* block drops the dataset, and scrape() returns the results.
ScrapeReturn ==
    /\ pc = "results"
    /\ \E getDataThrows \in BOOLEAN :
          result' = getResults(dataset, stats, getDataThrows)
    /\ dataset' = <<>>
    /\ pc' = "returned"
    /\ UNCHANGED <<input, queue, seen, retryCount, cur, attempt, failing,
                   stats, failedTasks, flaky, site, eaVars>>
    /\ UNCHANGED <<pwVars, saVars, utVars, xVars>>

RunNext ==
    \/ ScrapeStart \/ ScrapeInitFails
    \/ Deliver \/ NavigationFails \/ FailedRequestHandler
    \/ PageClosed
    \/ StartAuthorScrape \/ EaIterate \/ AuthorThrows \/ AuthorScraped
    \/ HandleArticlePage \/ HandleUnknownPage
    \/ CrawlerFinished \/ ScrapeReturn

(***************************************************************************)
(* The standalone MediumScraper.scrapeAuthor: its scroll loop              *)
(***************************************************************************)
MaxScrollAttempts == 10

\* Bounds of the scroll loop's exploration.
MaxHeights == 2             \* page heights 1..MaxHeights
MaxView == 2                \* article elements in one view
MaxCollected == 3           \* posts collected before the exploration stops

\* CONFIG.maxPosts
Infinity == [finite |-> FALSE, n |-> 0]
Finite(n) == [finite |-> TRUE, n |-> n]

\* this.maxPosts = options.maxPosts || CONFIG.maxPosts (0 stands for an
\* option that is absent or 0)
MaxPostsOption(option) == IF option # 0 THEN Finite(option) ELSE Infinity

\* posts.length < this.maxPosts
BelowMaxPosts(len, mp) == ~mp.finite \/ len < mp.n

\* What page.evaluate returns for one article element: title and url are 0
\* when empty, else the number of a title or of a link.
PostData == [title : 0..1, url : 0..1]

\* A url is <<>> when empty, <<"href", k>> when the element carried link k
\* and <<"slug", t>> when the Post constructor made it from title t.
RawUrl(d) == IF d.url # 0 THEN <<"href", d.url>> ELSE <<>>

\* new Post(data).url
PostUrl(d) ==
    IF d.url # 0 THEN <<"href", d.url>>
    ELSE IF d.title # 0 THEN <<"slug", d.title>>
    ELSE <<>>

\* The for loop over newPosts, from [posts, hasMore]: a post is added when
\* no collected url equals the raw url and the Post's url is not empty.
RECURSIVE AddPosts(_, _, _)
AddPosts(st, newPosts, mp) ==
    IF newPosts = <<>> THEN st
    ELSE LET d == Head(newPosts)
             known == \E i \in 1..Len(st.posts) : st.posts[i] = RawUrl(d)
         IN IF ~known /\ PostUrl(d) # <<>>
            THEN LET posts == Append(st.posts, PostUrl(d)) IN
                 IF ~BelowMaxPosts(Len(posts), mp)
                 THEN [posts |-> posts, hasMore |-> FALSE]
                 ELSE AddPosts([st EXCEPT !.posts = posts], Tail(newPosts), mp)
            ELSE AddPosts(st, Tail(newPosts), mp)

\* while (hasMore && posts.length < this.maxPosts && scrollAttempts < 10)
SaLoopCond ==
    /\ saHasMore
    /\ BelowMaxPosts(Len(saPosts), saMaxPosts)
    /\ saScrollAttempts < MaxScrollAttempts

SaIdle ==
    /\ saPc = "idle"
    /\ saMaxPosts = Infinity
    /\ saPosts = <<>>
    /\ saHasMore = TRUE
    /\ saScrollAttempts = 0
    /\ saLastHeight = 0

\* new MediumScraper(options).scrapeAuthor(url) reaches the loop.
SaStart ==
    /\ saPc = "idle"
    /\ \E option \in 0..MaxPosts : saMaxPosts' = MaxPostsOption(option)
    /\ saPc' = "loop"
    /\ saPosts' = <<>>
    /\ saHasMore' = TRUE
    /\ saScrollAttempts' = 0
    /\ saLastHeight' = 0
    /\ UNCHANGED <<pwVars, runVars, eaVars, utVars, xVars>>

\* One iteration: the view holds newPosts, and after the scroll the page is
\* newHeight high.
SaIterate ==
    /\ saPc = "loop"
    /\ SaLoopCond
    /\ \E newPosts \in SeqsUpTo(PostData, MaxView), newHeight \in 1..MaxHeights :
          LET st == AddPosts([posts |-> saPosts, hasMore |-> saHasMore],
                             newPosts, saMaxPosts)
          IN /\ Len(st.posts) <= MaxCollected
             /\ saPosts' = st.posts
             /\ saHasMore' = st.hasMore
             /\ IF ~st.hasMore
                THEN UNCHANGED <<saScrollAttempts, saLastHeight>>
                ELSE IF newHeight = saLastHeight
                THEN /\ saScrollAttempts' = saScrollAttempts + 1
                     /\ saLastHeight' = saLastHeight
                ELSE /\ saScrollAttempts' = 0
                     /\ saLastHeight' = newHeight
    /\ UNCHANGED <<saPc, saMaxPosts, pwVars, runVars, eaVars, utVars, xVars>>

\* retry() gives up on the evaluation or on the scroll: scrapeAuthor logs
\* and rethrows.
SaThrows ==
    /\ saPc = "loop"
    /\ SaLoopCond
    /\ saPc' = "threw"
    /\ UNCHANGED <<saMaxPosts, saPosts, saHasMore, saScrollAttempts,
                   saLastHeight, pwVars, runVars, eaVars, utVars, xVars>>

\* The loop condition is false: scrapeAuthor goes on with the posts.
SaExit ==
    /\ saPc = "loop"
    /\ ~SaLoopCond
    /\ saPc' = "done"
    /\ UNCHANGED <<saMaxPosts, saPosts, saHasMore, saScrollAttempts,
                   saLastHeight, pwVars, runVars, eaVars, utVars, xVars>>

SaNext == SaStart \/ SaIterate \/ SaThrows \/ SaExit

(***************************************************************************)
(* ProxyManager (utils/proxyManager.js) and the rotation the crawler's     *)
(* preNavigationHooks ask of it                                            *)
(***************************************************************************)
PROXY_ROTATION_INTERVAL == 5
USER_AGENT_ROTATION_INTERVAL == 10

\* Pool sizes explored, and how many calls one exploration makes.
MaxPool == 3
MaxPmCalls == 5

\* A proxy url is named by a positive number; getCurrentProxy's and
\* getNextProxy's null is NoProxy.
NoProxy == 0
ProxyUrls(n) == [i \in 1..n |-> i]

\* new ProxyManager(options)
NewProxyManager(list, use) ==
    [proxyList |-> list,
     currentIndex |-> 0,
     failedProxies |-> {},
     rotationInterval |-> PROXY_ROTATION_INTERVAL,
     useRotatingProxies |-> use,
     stats |-> [failedRequests |-> 0, successfulRequests |-> 0,
                proxyChanges |-> 0]]

\* initialize(): loadApifyProxies pushes the `loaded` urls the Apify proxy
\* configuration gave (none when it is absent or fails); with an empty list
\* rotation is switched off.
initialize(pm, loaded) ==
    LET list == IF pm.useRotatingProxies
                THEN pm.proxyList \o loaded ELSE pm.proxyList
    IN [pm EXCEPT !.proxyList = list,
                  !.useRotatingProxies = @ /\ Len(list) # 0]

getCurrentProxy(pm) ==
    IF ~pm.useRotatingProxies \/ Len(pm.proxyList) = 0
    THEN NoProxy
    ELSE pm.proxyList[pm.currentIndex + 1]

\* The while loop of getNextProxy, entered with currentIndex = idx after
\* `attempts` failed candidates: the index and the proxy it ends with.
RECURSIVE FindWorkingProxy(_, _, _, _)
FindWorkingProxy(list, failed, idx, attempts) ==
    IF attempts < Len(list)
    THEN LET next == (idx + 1) % Len(list)
             proxy == list[next + 1]
         IN IF proxy \notin failed
            THEN [currentIndex |-> next, proxy |-> proxy]
            ELSE FindWorkingProxy(list, failed, next, attempts + 1)
    ELSE [currentIndex |-> idx, proxy |-> list[idx + 1]]

\* A faulty variant: the next proxy of the list, marked as failed or not.
getNextProxyIgnoresFailed(pm) ==
    IF ~pm.useRotatingProxies \/ Len(pm.proxyList) = 0
    THEN [pm |-> pm, ret |-> NoProxy]
    ELSE LET next == (pm.currentIndex + 1) % Len(pm.proxyList)
         IN [pm |-> [pm EXCEPT !.currentIndex = next,
                               !.stats.proxyChanges = @ + 1],
             ret |-> pm.proxyList[next + 1]]

\* getNextProxy(): the manager after the call and the value returned.
getNextProxy(pm) ==
    IF ~pm.useRotatingProxies \/ Len(pm.proxyList) = 0
    THEN [pm |-> pm, ret |-> NoProxy]
    ELSE LET found == FindWorkingProxy(pm.proxyList, pm.failedProxies,
                                       pm.currentIndex, 0)
         IN [pm |-> [pm EXCEPT
                        !.currentIndex = found.currentIndex,
                        !.failedProxies =
                            IF found.proxy \in @ THEN {} ELSE @,
                        !.stats.proxyChanges = @ + 1],
             ret |-> found.proxy]

markProxyFailed(pm, proxy) ==
    IF proxy # NoProxy
    THEN [pm EXCEPT !.failedProxies = @ \cup {proxy},
                    !.stats.failedRequests = @ + 1]
    ELSE pm

markProxySuccess(pm, proxy) ==
    [pm EXCEPT !.stats.successfulRequests = @ + 1,
               !.failedProxies = @ \ {proxy}]

shouldRotateProxy(pm, requestCount) ==
    /\ pm.useRotatingProxies
    /\ requestCount > 0
    /\ requestCount % pm.rotationInterval = 0

shouldRotateUserAgent(requestCount) ==
    /\ requestCount > 0
    /\ requestCount % USER_AGENT_ROTATION_INTERVAL = 0

\* ---- the manager on its own: its methods called in any order
PmCalls(pm) ==
    pm.stats.failedRequests + pm.stats.successfulRequests
        + pm.stats.proxyChanges

NoPmCall == [op |-> "none", arg |-> NoProxy, ret |-> NoProxy,
             indexBefore |-> 0, failedBefore |-> {}]

PmIdle ==
    /\ proxyManager = NewProxyManager(<<>>, FALSE)
    /\ pmLast = NoPmCall

\* A manager built with a list of up to MaxPool proxies and initialized.
PmInit ==
    /\ \E n \in 0..MaxPool, use \in BOOLEAN, k \in 0..1 :
          /\ n + k <= MaxPool
          /\ proxyManager =
                initialize(NewProxyManager(ProxyUrls(n), use),
                           IF k = 1 THEN <<n + 1>> ELSE <<>>)
    /\ pmLast = NoPmCall

PmCall(op, arg, ret) ==
    [op |-> op, arg |-> arg, ret |-> ret,
     indexBefore |-> proxyManager.currentIndex,
     failedBefore |-> proxyManager.failedProxies]

GetCurrentProxy ==
    /\ pmLast' = PmCall("getCurrentProxy", NoProxy,
                        getCurrentProxy(proxyManager))
    /\ UNCHANGED proxyManager
    /\ UNCHANGED <<pwVars, runVars, eaVars, saVars, rotation, rateLimiter,
                   retryCall, classified, articleCall, profileCall, dateCall, xVars>>

GetNextProxy ==
    /\ PmCalls(proxyManager) < MaxPmCalls
    /\ LET r == getNextProxy(proxyManager)
       IN /\ proxyManager' = r.pm
          /\ pmLast' = PmCall("getNextProxy", NoProxy, r.ret)
    /\ UNCHANGED <<pwVars, runVars, eaVars, saVars, rotation, rateLimiter,
                   retryCall, classified, articleCall, profileCall, dateCall, xVars>>

\* The callers pass the proxy in use or any proxy they hold, null included.
MarkProxyFailed ==
    /\ PmCalls(proxyManager) < MaxPmCalls
    /\ \E proxy \in {NoProxy} \cup 1..Len(proxyManager.proxyList) :
          /\ proxyManager' = markProxyFailed(proxyManager, proxy)
          /\ pmLast' = PmCall("markProxyFailed", proxy, NoProxy)
    /\ UNCHANGED <<pwVars, runVars, eaVars, saVars, rotation, rateLimiter,
                   retryCall, classified, articleCall, profileCall, dateCall, xVars>>

MarkProxySuccess ==
    /\ PmCalls(proxyManager) < MaxPmCalls
    /\ \E proxy \in {NoProxy} \cup 1..Len(proxyManager.proxyList) :
          /\ proxyManager' = markProxySuccess(proxyManager, proxy)
          /\ pmLast' = PmCall("markProxySuccess", proxy, NoProxy)
    /\ UNCHANGED <<pwVars, runVars, eaVars, saVars, rotation, rateLimiter,
                   retryCall, classified, articleCall, profileCall, dateCall, xVars>>

PmNext == GetCurrentProxy \/ GetNextProxy \/ MarkProxyFailed \/ MarkProxySuccess

\* ---- the crawl as the preNavigationHooks see it.  The crawler runs the
\* hook before every navigation; the request then fails to load, or
\* handleRequest handles it.  stats.totalArticles moves only at the end of
\* handleArticlePage.
MaxArticles == 6
MaxDeliveries == 8

NoRotation == 0 - 1

RotIdle ==
    rotation = [totalArticles |-> 0, deliveries |-> 0, userAgentChanges |-> 0,
                lastRotateAt |-> NoRotation, prevRotateAt |-> NoRotation]

\* MediumScraper's constructor and initialize(): the manager has no list of
\* its own and gets at most one url from the Apify proxy configuration.
RotInit ==
    /\ \E use \in BOOLEAN, k \in 0..1 :
          proxyManager =
              initialize(NewProxyManager(<<>>, use),
                         IF k = 1 THEN <<1>> ELSE <<>>)
    /\ pmLast = NoPmCall
    /\ RotIdle

\* What happens to a delivered request after the hook:
\*   "article"  handleArticlePage stores the article (or finds none)
\*   "skipped"  handleArticlePage returns at the paywall
\*   "other"    an author page or an unknown page is handled
\*   "failed"   the navigation or the handler throws; the crawler delivers
\*              the request again or gives it up
Outcomes == {"article", "skipped", "other", "failed"}

\* preNavigationHooks[0] followed by the navigation and handleRequest.
Navigate(outcome) ==
    /\ rotation.deliveries < MaxDeliveries
    /\ outcome = "article" => rotation.totalArticles < MaxArticles
    /\ LET rotate == shouldRotateProxy(proxyManager, rotation.totalArticles)
           hooked == IF rotate THEN getNextProxy(proxyManager).pm
                     ELSE proxyManager
           current == getCurrentProxy(hooked)
       IN /\ proxyManager' =
                IF outcome # "failed" /\ current # NoProxy
                THEN markProxySuccess(hooked, current)
                ELSE hooked
          /\ rotation' =
                [totalArticles |->
                     rotation.totalArticles
                         + (IF outcome = "article" THEN 1 ELSE 0),
                 deliveries |-> rotation.deliveries + 1,
                 userAgentChanges |->
                     rotation.userAgentChanges
                         + (IF shouldRotateUserAgent(rotation.totalArticles)
                            THEN 1 ELSE 0),
                 lastRotateAt |->
                     IF rotate THEN rotation.totalArticles
                     ELSE rotation.lastRotateAt,
                 prevRotateAt |->
                     IF rotate THEN rotation.lastRotateAt
                     ELSE rotation.prevRotateAt]
    /\ UNCHANGED <<pwVars, runVars, eaVars, saVars, pmLast, rateLimiter,
                   retryCall, classified, articleCall, profileCall, dateCall, xVars>>

ArticleHandled == Navigate("article")
ArticleSkipped == Navigate("skipped")
OtherPageHandled == Navigate("other")
RequestThrows == Navigate("failed")

RotNext ==
    ArticleHandled \/ ArticleSkipped \/ OtherPageHandled \/ RequestThrows

(***************************************************************************)
(* RateLimiter (the token bucket behind rateLimit())                       *)
(***************************************************************************)
\* Times are in milliseconds.  this.tokens is a fraction; it is kept as
\* tokens * MsPerMinute, which makes refillAmount = timePassed *
\* requestsPerMinute exact.  Date.now() and this.lastRefill appear only in
\* their difference, the time passed since the last refill, which each call
\* takes as an input.
MsPerMinute == 60000

\* Calls made in one exploration.
MaxRlCalls == 4

\* Configured rates.  7 does not divide MsPerMinute: its waitTime is
\* 8571.43 ms, of which setTimeout keeps the whole milliseconds.
Rates == {1, 2, 7, 30}

\* Time that can pass between a refill and the next one.
Elapsed == {0, 1, 1000, MsPerMinute}

\* How far from its delay a setTimeout callback sees Date.now(): the timer
\* runs on the loop's monotonic clock and Date.now() on the wall clock, so
\* a callback can observe a millisecond less than the delay, or more.
TimerSkew == {0 - 1, 0, 1}


\* new RateLimiter(requestsPerMinute)
NewRateLimiter(rpm) ==
    [requestsPerMinute |-> rpm, tokens |-> rpm * MsPerMinute,
     calls |-> 0, last |-> "none"]

\* refillTokens() when timePassed ms have passed since lastRefill
refillTokens(rl, timePassed) ==
    [rl EXCEPT !.tokens = Min(rl.requestsPerMinute * MsPerMinute,
                              @ + timePassed * rl.requestsPerMinute)]

\* waitTime of waitForToken, as the timer takes it (whole milliseconds)
waitTime(rl) == MsPerMinute \div rl.requestsPerMinute

\* waitForToken(): timePassed before the first refill, and the skew of the
\* timer if the call has to wait.
waitForToken(rl, timePassed, skew) ==
    LET first == refillTokens(rl, timePassed)
        second == IF first.tokens < MsPerMinute
                  THEN refillTokens(first, waitTime(rl) + skew)
                  ELSE first
    IN [second EXCEPT !.tokens = @ - MsPerMinute]

RlIdle == rateLimiter = NewRateLimiter(1)

RlInit == \E rpm \in Rates : rateLimiter = NewRateLimiter(rpm)

\* rateLimit(): waitForToken() followed by randomDelay(), which only waits.
WaitForToken ==
    /\ rateLimiter.calls < MaxRlCalls
    /\ \E timePassed \in Elapsed, skew \in TimerSkew :
          rateLimiter' =
              [waitForToken(rateLimiter, timePassed, skew) EXCEPT
                  !.calls = @ + 1, !.last = "waitForToken"]
    /\ UNCHANGED <<pwVars, runVars, eaVars, saVars, pmVars, rotation,
                   retryCall, classified, articleCall, profileCall, dateCall, xVars>>

RefillTokens ==
    /\ rateLimiter.calls < MaxRlCalls
    /\ \E timePassed \in Elapsed :
          rateLimiter' =
              [refillTokens(rateLimiter, timePassed) EXCEPT
                  !.calls = @ + 1, !.last = "refillTokens"]
    /\ UNCHANGED <<pwVars, runVars, eaVars, saVars, pmVars, rotation,
                   retryCall, classified, articleCall, profileCall, dateCall, xVars>>

RlNext == WaitForToken \/ RefillTokens

(***************************************************************************)
(* The retry wrappers: retry() (utils/retry.js) and withRetry() of         *)
(* configureRetryMechanism (utils.js)                                      *)
(***************************************************************************)
\* An attempt of the wrapped operation either resolves ("ok") or throws an
\* Error, named by its message.
Errors == {"e1", "e2"}
AttemptOutcomes == {"ok"} \cup Errors

\* Largest maxRetries explored.
MaxAttempts == 3

\* Math.random() in tenths: jitter = delay * (0.5 + random).
Randoms == {0, 5, 9}

Delays == {1000, 3000, 20000}
MaxDelays == {10000}

NoError == "none"

\* The frame of a call: the parameters, the locals (attempt, delay,
\* lastError), what was invoked and waited so far, and how the call ended.
RetryFrame(fn, retries, initialDelay, maxDelay) ==
    [fn |-> fn, maxRetries |-> retries, initialDelay |-> initialDelay,
     maxDelay |-> maxDelay,
     attempt |-> 1, delay |-> initialDelay, lastError |-> NoError,
     invoked |-> <<>>, waits |-> <<>>,
     pc |-> "loop", thrown |-> NoError]

RtIdle ==
    retryCall = [RetryFrame("none", 0, 0, 0) EXCEPT !.pc = "idle"]

RtInit ==
    \E retries \in 0..MaxAttempts :
        \/ \E initialDelay \in Delays, maxDelay \in MaxDelays :
              retryCall = RetryFrame("retry", retries, initialDelay,
                                     maxDelay)
        \/ retryCall = RetryFrame("withRetry", retries, 0, 0)

\* The Error thrown after the loop: its message ends with
\* lastError.message.  With no attempt made lastError is still undefined
\* (null) and reading its message throws a TypeError instead.
Exhausted(frame) ==
    [frame EXCEPT !.pc = "threw",
                  !.thrown = IF frame.lastError = NoError
                             THEN "TypeError" ELSE frame.lastError]

\* One iteration of retry()'s for loop; the catch block keeps the error
\* of this attempt.
retryIterationKeepsFirstError(frame, outcome, random) ==
    LET called == [frame EXCEPT !.invoked = Append(@, outcome)]
    IN IF outcome = "ok"
       THEN [called EXCEPT !.pc = "returned"]
       ELSE LET caught ==
                    [called EXCEPT !.lastError =
                        IF @ = NoError THEN outcome ELSE @]
            IN IF frame.attempt = frame.maxRetries
               THEN Exhausted(caught)
               ELSE LET delay == Min(frame.delay * 2, frame.maxDelay)
                        jitter == (delay * (5 + random)) \div 10
                    IN [caught EXCEPT !.delay = delay,
                                      !.waits = Append(@, jitter),
                                      !.attempt = @ + 1]

retryIteration(frame, outcome, random) ==
    LET called == [frame EXCEPT !.invoked = Append(@, outcome)]
    IN IF outcome = "ok"
       THEN [called EXCEPT !.pc = "returned"]
       ELSE LET caught == [called EXCEPT !.lastError = outcome]
            IN IF frame.attempt = frame.maxRetries
               THEN Exhausted(caught)
               ELSE LET delay == Min(frame.delay * 2, frame.maxDelay)
                        jitter == (delay * (5 + random)) \div 10
                    IN [caught EXCEPT !.delay = delay,
                                      !.waits = Append(@, jitter),
                                      !.attempt = @ + 1]

RECURSIVE Pow2(_)
Pow2(n) == IF n = 0 THEN 1 ELSE 2 * Pow2(n - 1)

\* One iteration of withRetry()'s for loop.
withRetryIteration(frame, outcome) ==
    LET called == [frame EXCEPT !.invoked = Append(@, outcome)]
    IN IF outcome = "ok"
       THEN [called EXCEPT !.pc = "returned"]
       ELSE LET caught == [called EXCEPT !.lastError = outcome]
            IN IF frame.attempt < frame.maxRetries
               THEN [caught EXCEPT
                        !.waits = Append(@, 1000 * Pow2(frame.attempt - 1)),
                        !.attempt = @ + 1]
               ELSE Exhausted(caught)

RetryIteration ==
    /\ retryCall.fn = "retry"
    /\ retryCall.pc = "loop"
    /\ retryCall.attempt <= retryCall.maxRetries
    /\ \E outcome \in AttemptOutcomes, random \in Randoms :
          retryCall' = retryIteration(retryCall, outcome, random)
    /\ UNCHANGED <<pwVars, runVars, eaVars, saVars, pmVars, rotation,
                   rateLimiter, classified, articleCall, profileCall,
                   dateCall, xVars>>

WithRetryIteration ==
    /\ retryCall.fn = "withRetry"
    /\ retryCall.pc = "loop"
    /\ retryCall.attempt <= retryCall.maxRetries
    /\ \E outcome \in AttemptOutcomes :
          retryCall' = withRetryIteration(retryCall, outcome)
    /\ UNCHANGED <<pwVars, runVars, eaVars, saVars, pmVars, rotation,
                   rateLimiter, classified, articleCall, profileCall,
                   dateCall, xVars>>

\* The for loop is left without an iteration (maxRetries < 1): the throw
\* after the loop.
RetryLoopExit ==
    /\ retryCall.fn \in {"retry", "withRetry"}
    /\ retryCall.pc = "loop"
    /\ retryCall.attempt > retryCall.maxRetries
    /\ retryCall' = Exhausted(retryCall)
    /\ UNCHANGED <<pwVars, runVars, eaVars, saVars, pmVars, rotation,
                   rateLimiter, classified, articleCall, profileCall,
                   dateCall, xVars>>

RtNext == RetryIteration \/ WithRetryIteration \/ RetryLoopExit

(***************************************************************************)
(* Page classification: isAuthorPage, isArticlePage and the dispatch of    *)
(* handleRequest, on url texts built from path segments                    *)
(***************************************************************************)
\* Longest path explored, in segments.
MaxSegments == 3

Segments ==
    { <<"/","@","a","n","n">>,
      <<"/","p">>,
      <<"/","s","t","o","r","y">>,
      <<"/">> \o HexId,
      <<"/","m","y","-">> \o HexId,
      <<"/","a","b","o","u","t">>,
      <<"/","1">> }

RECURSIVE Paths(_)
Paths(n) ==
    IF n = 0 THEN {<<>>}
    ELSE LET shorter == Paths(n - 1)
         IN shorter \cup {p \o s : p \in shorter, s \in Segments}

ClassifyTexts == {Origin \o p : p \in Paths(MaxSegments)}

\* The if / else if / else of handleRequest.
DispatchedAs(text) ==
    IF isAuthorText(text) THEN "author"
    ELSE IF isArticleText(text) THEN "article"
    ELSE "unknown"

ClIdle == classified = [text |-> Origin, kind |-> "none"]

ClInit == \E text \in ClassifyTexts : classified = [text |-> text, kind |-> "none"]

Dispatch ==
    /\ classified.kind = "none"
    /\ classified' = [classified EXCEPT !.kind = DispatchedAs(classified.text)]
    /\ UNCHANGED <<pwVars, runVars, eaVars, saVars, pmVars, rotation,
                   rateLimiter, retryCall, articleCall, profileCall,
                   dateCall, xVars>>

ClNext == Dispatch

(***************************************************************************)
(* ArticleScraper.scrapeArticle: extractArticleInfo, extractArticleContent *)
(* and the reading time of the record                                      *)
(***************************************************************************)
WordsPerMinute == 200

\* A word count no text has: undefined, and the NaN it turns into.
Undefined == 0 - 2
NaN == 0 - 1

\* Word counts of the article bodies explored.
WordCounts == {0, 1, 200, 201}

\* Math.ceil(wordCount / wordsPerMinute)
calculateReadTime(wordCount) ==
    IF wordCount = Undefined THEN NaN
    ELSE (wordCount + WordsPerMinute - 1) \div WordsPerMinute

\* The text of the reading-time element: a number followed by a word, or
\* nothing ('' when the element is missing).
NoText == [n |-> 0, word |-> ""]
ReadTimeTexts ==
    {NoText, [n |-> 3, word |-> "min"], [n |-> 2, word |-> "hr"],
     [n |-> 5, word |-> "claps"]}

\* post.readingTime of the structured state is a number, not a text.
NumberValue == [n |-> 4, word |-> "number"]

\* extractReadingTime(text)
extractReadingTime(text) ==
    IF text = NoText \/ text = NumberValue THEN 0
    ELSE IF text.word \in {"min", "minute"} THEN text.n
    ELSE IF text.word \in {"hr", "hour"} THEN text.n * 60
    ELSE 0

\* The page an article request landed on:
\*   apollo       the __APOLLO_STATE__ script: "absent", "malformed"
\*                (JSON.parse throws), "noPost" (no post reference under
\*                ROOT_QUERY) or "ok"
\*   contains     whether querySelector accepts the :contains() selector;
\*                where it does not, it throws a SyntaxError
\*   paragraphs   'Paragraph:' keys of the state
\*   stateWords   words of the paragraphs in the state
\*   domWords     words of the content elements
\*   readTime     text of the reading-time element
ArticlePages ==
    [apollo : {"absent", "malformed", "noPost", "ok"},
     contains : BOOLEAN,
     paragraphs : {0, 2},
     stateWords : {150},
     domWords : WordCounts,
     readTime : ReadTimeTexts]

NoContent == [source |-> "none", wordCount |-> 0]
NoInfo == [source |-> "none", readTime |-> NoText]
NoRecord == [source |-> "none", readTime |-> 0, content |-> NoContent]

ArStart(page, includeContent) ==
    [page |-> page, includeContent |-> includeContent, pc |-> "start",
     info |-> NoInfo, extractedState |-> FALSE, content |-> NoContent,
     record |-> NoRecord, read_time |-> 0]

ArIdle ==
    articleCall =
        [ArStart([apollo |-> "absent", contains |-> FALSE, paragraphs |-> 0,
                  stateWords |-> 150, domWords |-> 0, readTime |-> NoText],
                 FALSE) EXCEPT !.pc = "idle"]

ArInit ==
    \E page \in ArticlePages, includeContent \in BOOLEAN :
        articleCall = ArStart(page, includeContent)

\* The function extractArticleInfo evaluates in the page.  The structured
\* state is stored in window.__EXTRACTED_APOLLO_STATE__ only once the post
\* was found in it; every exception of the first part is caught and the
\* DOM queries follow.
structuredPathTaken(page) ==
    /\ page.contains
    /\ page.apollo = "ok"

\* A variant that stores the state as soon as the script is found.
evaluateArticleInfoStoresEarly(call) ==
    IF structuredPathTaken(call.page)
    THEN [call EXCEPT !.info = [source |-> "state", readTime |-> NumberValue],
                      !.extractedState = TRUE]
    ELSE [call EXCEPT !.info = [source |-> "dom",
                                readTime |-> call.page.readTime],
                      !.extractedState =
                          call.page.contains /\ call.page.apollo # "absent"]

evaluateArticleInfo(call) ==
    IF structuredPathTaken(call.page)
    THEN [call EXCEPT !.info = [source |-> "state", readTime |-> NumberValue],
                      !.extractedState = TRUE]
    ELSE [call EXCEPT !.info = [source |-> "dom",
                                readTime |-> call.page.readTime]]

\* The function extractArticleContent evaluates in the page, then
\* flattenContent.
evaluateArticleContent(call) ==
    IF call.extractedState /\ call.page.paragraphs > 0
    THEN [source |-> "state", wordCount |-> call.page.stateWords]
    ELSE [source |-> "dom", wordCount |-> call.page.domWords]

ExtractArticleInfo ==
    /\ articleCall.pc = "start"
    /\ articleCall' = [evaluateArticleInfo(articleCall) EXCEPT !.pc = "info"]
    /\ UNCHANGED <<pwVars, runVars, eaVars, saVars, pmVars, rotation,
                   rateLimiter, retryCall, classified, profileCall,
                   dateCall, xVars>>

ExtractArticleContent ==
    /\ articleCall.pc = "info"
    /\ articleCall.includeContent
    /\ articleCall' =
          [articleCall EXCEPT !.content = evaluateArticleContent(articleCall),
                              !.pc = "content"]
    /\ UNCHANGED <<pwVars, runVars, eaVars, saVars, pmVars, rotation,
                   rateLimiter, retryCall, classified, profileCall,
                   dateCall, xVars>>

\* scrapeArticle returns {...articleInfo, content, ...}; readTime was set
\* by extractArticleInfo from the text it found.
ScrapeArticleReturn ==
    /\ \/ articleCall.pc = "content"
       \/ articleCall.pc = "info" /\ ~articleCall.includeContent
    /\ articleCall' =
          [articleCall EXCEPT
              !.record = [source |-> articleCall.info.source,
                          readTime |->
                              extractReadingTime(articleCall.info.readTime),
                          content |-> articleCall.content],
              !.pc = "returned"]
    /\ UNCHANGED <<pwVars, runVars, eaVars, saVars, pmVars, rotation,
                   rateLimiter, retryCall, classified, profileCall,
                   dateCall, xVars>>

\* formatArticleData(articleData) of the older scraper, on the same page:
\* articleData has a content text when content was asked for and never a
\* word_count, which is what calculateReadTime is given.
FormatArticleData ==
    /\ articleCall.pc = "start"
    /\ articleCall' =
          [articleCall EXCEPT
              !.content = IF articleCall.includeContent
                          THEN [source |-> "dom",
                                wordCount |-> articleCall.page.domWords]
                          ELSE NoContent,
              !.read_time = calculateReadTime(Undefined),
              !.pc = "formatted"]
    /\ UNCHANGED <<pwVars, runVars, eaVars, saVars, pmVars, rotation,
                   rateLimiter, retryCall, classified, profileCall,
                   dateCall, xVars>>

ArNext ==
    \/ ExtractArticleInfo
    \/ ExtractArticleContent
    \/ ScrapeArticleReturn
    \/ FormatArticleData

(***************************************************************************)
(* AuthorScraper: waitForAuthorPage and extractAuthorInfo, in the scraper  *)
(* the crawler uses (scrapers/AuthorScraper.js) and in its earlier variant *)
(***************************************************************************)
\* A counter text reduced to the number its digits spell; NaN when it has
\* no digit.  A missing element gives the text '0'.
Missing == 0 - 3
CounterTexts == {Missing, NaN, 12}

\* parseInt(text.replace(/[^\d]/g, ''), 10) || 0, on (element text || '0')
parseCount(text) ==
    IF text = Missing \/ text = NaN THEN 0 ELSE text

\* The author page:
\*   appear     the name and the article container become visible in time
\*   closed     the page was closed under the scraper
\*   idle       the network goes idle within the 10 s of waitForLoadState
\*   evaluates  page.evaluate runs to its end
\*   name, bio, username, followers, following: the profile elements' texts,
\*              "" for an element that is missing
ProfilePages ==
    [appear : BOOLEAN, closed : BOOLEAN, idle : BOOLEAN, evaluates : BOOLEAN,
     name : {"", "Ann"}, bio : {"", "Writes"}, username : {"", "@ann"},
     followers : CounterTexts, following : {Missing, 3}]

ProfileVariants == {"AuthorScraper.js", "part_005"}

NoAuthorInfo ==
    [name |-> "", bio |-> "", username |-> "", followers |-> 0,
     following |-> 0]

ApStart(variant, page) ==
    [variant |-> variant, page |-> page, pc |-> "start",
     info |-> NoAuthorInfo]

ApIdle ==
    profileCall =
        [ApStart("AuthorScraper.js",
                 [appear |-> TRUE, closed |-> FALSE, idle |-> TRUE,
                  evaluates |-> TRUE, name |-> "", bio |-> "",
                  username |-> "", followers |-> Missing,
                  following |-> Missing]) EXCEPT !.pc = "idle"]

\* A closed page shows nothing and evaluates nothing.
ApInit ==
    \E variant \in ProfileVariants, page \in ProfilePages :
        /\ page.closed => ~page.appear /\ ~page.evaluates
        /\ profileCall = ApStart(variant, page)

\* waitForAuthorPage: a timeout is logged and swallowed; the scraper in
\* use then waits 3 s more on the page, which throws if the page is closed.
WaitForAuthorPage ==
    /\ profileCall.pc = "start"
    /\ profileCall' =
          [profileCall EXCEPT !.pc =
              IF /\ ~profileCall.page.appear
                 /\ profileCall.variant = "AuthorScraper.js"
                 /\ profileCall.page.closed
              THEN "threw" ELSE "waited"]
    /\ UNCHANGED <<pwVars, runVars, eaVars, saVars, pmVars, rotation,
                   rateLimiter, retryCall, classified, articleCall,
                   dateCall, xVars>>

\* What the function evaluated in the page returns, cleaned.
evaluateAuthorInfo(page) ==
    [name |-> page.name, bio |-> page.bio, username |-> page.username,
     followers |-> parseCount(page.followers),
     following |-> parseCount(page.following)]

\* The object the catch block of extractAuthorInfo returns.
DefaultAuthorInfo ==
    [name |-> "Unknown", bio |-> "", username |-> "", followers |-> 0,
     following |-> 0]

\* The try block of extractAuthorInfo runs to its end.
ExtractionSucceeds(variant, page) ==
    IF variant = "AuthorScraper.js"
    THEN ~page.closed /\ page.idle /\ page.evaluates
    ELSE page.evaluates

ExtractAuthorInfo ==
    /\ profileCall.pc = "waited"
    /\ profileCall' =
          IF ExtractionSucceeds(profileCall.variant, profileCall.page)
          THEN [profileCall EXCEPT
                   !.info = evaluateAuthorInfo(profileCall.page),
                   !.pc = "returned"]
          ELSE IF profileCall.variant = "AuthorScraper.js"
          THEN [profileCall EXCEPT !.info = DefaultAuthorInfo,
                                   !.pc = "returned"]
          ELSE [profileCall EXCEPT !.pc = "threw"]
    /\ UNCHANGED <<pwVars, runVars, eaVars, saVars, pmVars, rotation,
                   rateLimiter, retryCall, classified, articleCall,
                   dateCall, xVars>>

ApNext == WaitForAuthorPage \/ ExtractAuthorInfo

(***************************************************************************)
(* Date normalisation: ArticleScraper.parseArticleDate and formatDate of   *)
(* utils/contentProcessor.js                                               *)
(***************************************************************************)
\* A date text is a sequence of tokens separated by single spaces.
MaxTokens == 3

Huge == "1000000000"
DigitTokens == {"5", "2024", Huge}
DateTokens == DigitTokens \cup {"5,", "Jan", "ago", "days", "fortnights"}

RECURSIVE TokenTexts(_)
TokenTexts(n) ==
    IF n = 0 THEN {<<>>}
    ELSE LET shorter == TokenTexts(n - 1)
         IN shorter \cup {Append(t, tok) : t \in shorter, tok \in DateTokens}

\* A token made of word characters only (\w+ up to the next space).
IsWord(tok) == tok # "5,"

\* What \d{1,2} takes of a digit token whose end it must reach, what it
\* takes at a token's start, and what \d{4} takes at a token's start.
LastDigits(tok) == CASE tok = "5" -> "5" [] tok = "2024" -> "24" [] OTHER -> "00"
FirstDigits(tok) ==
    CASE tok \in {"5", "5,"} -> "5" [] tok = "2024" -> "20" [] OTHER -> "10"
FourDigits(tok) == CASE tok = "2024" -> "2024" [] OTHER -> "1000"
HasFourDigits(tok) == tok \in {"2024", Huge}

NoMatch == <<>>

Leftmost(starts) == CHOOSE j \in starts : \A k \in starts : j <= k

\* match[0] of /(\w+)\s+(\d{1,2}),\s+(\d{4})/
MatchMonthDayYear(text) ==
    LET starts == {i \in 1..(Len(text) - 2) :
                      /\ IsWord(text[i])
                      /\ text[i + 1] = "5,"
                      /\ HasFourDigits(text[i + 2])}
    IN IF starts = {} THEN NoMatch
       ELSE LET i == Leftmost(starts)
            IN <<text[i], text[i + 1], FourDigits(text[i + 2])>>

\* match[0] of /(\d{1,2})\s+(\w+)\s+(\d{4})/
MatchDayMonthYear(text) ==
    LET starts == {i \in 1..(Len(text) - 2) :
                      /\ text[i] \in DigitTokens
                      /\ IsWord(text[i + 1])
                      /\ HasFourDigits(text[i + 2])}
    IN IF starts = {} THEN NoMatch
       ELSE LET i == Leftmost(starts)
            IN <<LastDigits(text[i]), text[i + 1], FourDigits(text[i + 2])>>

\* match[0] of /(\w+)\s+(\d{1,2})/
MatchMonthDay(text) ==
    LET starts == {i \in 1..(Len(text) - 1) :
                      /\ IsWord(text[i])
                      /\ text[i + 1] \in DigitTokens \cup {"5,"}}
    IN IF starts = {} THEN NoMatch
       ELSE LET i == Leftmost(starts)
            IN <<text[i], FirstDigits(text[i + 1])>>

\* The five datePatterns in order; the slash and the dash pattern match no
\* text made of these tokens.
datePatterns(text) ==
    <<MatchMonthDayYear(text), MatchDayMonthYear(text), MatchMonthDay(text),
      NoMatch, NoMatch>>

\* /(\d+)\s+(\w+)\s+ago/: the amount and the unit, or NoMatch
MatchRelative(text) ==
    LET starts == {i \in 1..(Len(text) - 2) :
                      /\ text[i] \in DigitTokens
                      /\ IsWord(text[i + 1])
                      /\ text[i + 2] = "ago"}
    IN IF starts = {} THEN NoMatch
       ELSE LET i == Leftmost(starts)
            IN <<text[i], text[i + 1]>>

\* The cases of the switch on the unit.
RecognisedUnits ==
    {"second", "seconds", "minute", "minutes", "hour", "hours", "day",
     "days", "week", "weeks", "month", "months", "year", "years"}

\* new Date(text) is a valid date.  Texts in a form every engine reads
\* parse; a text without a number does not; for the rest the result is the
\* engine's (its legacy parser): `lenient` says whether it accepts them.
DateForms ==
    {<<"Jan", "5">>, <<"Jan", "20">>, <<"Jan", "10">>,
     <<"5", "Jan", "2024">>, <<"24", "Jan", "2024">>,
     <<"Jan", "5,", "2024">>, <<"Jan", "5", "2024">>, <<"Jan", "2024">>,
     <<"2024">>}

\* Tokens and pieces of tokens that hold a digit.
NumberPieces == DigitTokens \cup {"5,", "20", "24", "10", "00", "1000"}

DateIsValid(text, lenient) ==
    IF text \in DateForms THEN TRUE
    ELSE IF \A i \in 1..Len(text) :
               text[i] \notin NumberPieces
    THEN FALSE
    ELSE lenient

\* now moved back by the amount is still a date toISOString can print.
ShiftedIsValid(amount, unit) == ~(amount = Huge /\ unit = "days")

NullDate == "null"

\* The index of the first pattern whose match parses, 0 if none.
FirstParsedPattern(text, lenient) ==
    LET matches == datePatterns(text)
        parsed == {i \in 1..Len(matches) :
                      matches[i] # NoMatch /\ DateIsValid(matches[i], lenient)}
    IN IF parsed = {} THEN 0
       ELSE CHOOSE j \in parsed : \A k \in parsed : j <= k

\* parseArticleDate(dateText): "null", or which ISO string it returns:
\* "parsed" (a Date read from the text), "shifted" (now moved back by the
\* amount) or "now" (now as it is).
parseArticleDate(isString, text, lenient) ==
    IF ~isString THEN NullDate          \* dateText.match throws; caught
    ELSE IF text = <<>> THEN NullDate
    ELSE IF FirstParsedPattern(text, lenient) # 0 THEN "parsed"
    ELSE IF MatchRelative(text) # NoMatch
    THEN LET amount == MatchRelative(text)[1]
             unit == MatchRelative(text)[2]
         IN IF unit \notin RecognisedUnits THEN "now"
            ELSE IF ShiftedIsValid(amount, unit) THEN "shifted"
            ELSE NullDate               \* toISOString throws; caught
    ELSE IF DateIsValid(text, lenient) THEN "parsed"
    ELSE NullDate

\* formatDate(date) for a date that is not a Date object
formatDate(isString, text, lenient) ==
    IF ~isString THEN NullDate
    ELSE IF text = <<>> THEN NullDate
    ELSE IF MatchRelative(text) # NoMatch
    THEN LET amount == MatchRelative(text)[1]
             unit == MatchRelative(text)[2]
         IN IF unit \notin RecognisedUnits THEN "now"
            ELSE IF ShiftedIsValid(amount, unit) THEN "shifted"
            ELSE NullDate
    ELSE IF DateIsValid(text, lenient) THEN "parsed"
    ELSE NullDate

DtStart(isString, text, lenient) ==
    [isString |-> isString, text |-> text, lenient |-> lenient,
     fn |-> "none", ret |-> NullDate, threw |-> FALSE]

DtIdle == dateCall = DtStart(TRUE, <<>>, FALSE)

\* The argument is a text or, from the structured state, a number.
DtInit ==
    \E isString \in BOOLEAN, text \in TokenTexts(MaxTokens),
       lenient \in BOOLEAN :
        /\ ~isString => text = <<>>
        /\ dateCall = DtStart(isString, text, lenient)

ParseArticleDate ==
    /\ dateCall.fn = "none"
    /\ dateCall' =
          [dateCall EXCEPT !.fn = "parseArticleDate",
                           !.ret = parseArticleDate(dateCall.isString,
                                                    dateCall.text,
                                                    dateCall.lenient)]
    /\ UNCHANGED <<pwVars, runVars, eaVars, saVars, pmVars, rotation,
                   rateLimiter, retryCall, classified, articleCall,
                   profileCall, xVars>>

FormatDate ==
    /\ dateCall.fn = "none"
    /\ dateCall' =
          [dateCall EXCEPT !.fn = "formatDate",
                           !.ret = formatDate(dateCall.isString,
                                              dateCall.text,
                                              dateCall.lenient)]
    /\ UNCHANGED <<pwVars, runVars, eaVars, saVars, pmVars, rotation,
                   rateLimiter, retryCall, classified, articleCall,
                   profileCall, xVars>>

DtNext == ParseArticleDate \/ FormatDate

(***************************************************************************)
(* One article page handled: MediumScraper.handleArticlePage               *)
(***************************************************************************)
\* Pages the paywall handlers are run against here.
AtPages ==
    {page \in Pages :
        /\ page.contentLen \in {0, 101}
        /\ page.accessible \in {Null, "text"}
        /\ \A i \in 2..NumCloseSelectors : page.buttons[i] = "absent"
        /\ page.buttons[1] \in {"absent", "clicked"}}

NoTaskResult ==
    [paywallInfo |-> detectPaywall([i \in 1..NumDetectors |-> FALSE], FALSE),
     paywallResult |-> NotHandled, outcome |-> "none", stats |-> StatsStart]

AtStart(found, detectFails, page, premiumContent, scrapeThrows, pushThrows) ==
    [pc |-> "start", found |-> found, detectFails |-> detectFails,
     page |-> page, premiumContent |-> premiumContent,
     scrapeThrows |-> scrapeThrows, pushThrows |-> pushThrows,
     result |-> NoTaskResult]

AtIdle ==
    articleTask =
        AtStart([i \in 1..NumDetectors |-> FALSE], FALSE,
                [evalThrows |-> FALSE, contentLen |-> 0, accessible |-> Null,
                 buttons |-> [i \in 1..NumCloseSelectors |-> "absent"]],
                FALSE, FALSE, FALSE)

AtInit ==
    \E found \in [1..NumDetectors -> BOOLEAN], detectFails \in BOOLEAN,
       page \in AtPages, premiumContent \in BOOLEAN,
       scrapeThrows \in BOOLEAN, pushThrows \in BOOLEAN :
        articleTask = AtStart(found, detectFails, page, premiumContent,
                              scrapeThrows, pushThrows)

\* handleArticlePage(page, url) in a run that has handled nothing yet.
HandleArticleTask ==
    /\ articleTask.pc = "start"
    /\ articleTask' =
          [articleTask EXCEPT
              !.pc = "done",
              !.result = handleArticlePage(articleTask.found,
                             articleTask.detectFails, articleTask.page,
                             articleTask.premiumContent,
                             articleTask.scrapeThrows,
                             articleTask.pushThrows, StatsStart)]
    /\ UNCHANGED <<pwVars, runVars, eaVars, saVars, utVars, shutdown,
                   scrollCall>>

AtNext == HandleArticleTask

(***************************************************************************)
(* configurePagination().handleInfiniteScroll (utils.js)                   *)
(***************************************************************************)
\* while (scrollCount < maxScrolls && noChangeCount < 3)
StallLimit == 3

\* maxScrolls ranges over 0..MaxScrollLimit.
MaxScrollLimit == 6

\* Values of document.body.scrollHeight.
ScrollHeights == 1..2

\* The locals of one call; stalls is history: for each scroll made, whether
\* it left the height unchanged.
ScStart(n) ==
    [pc |-> "loop", maxScrolls |-> n, scrollCount |-> 0, noChangeCount |-> 0,
     previousHeight |-> 0, stalls |-> <<>>]

ScIdle == scrollCall = ScStart(0)

ScInit == \E n \in 0..MaxScrollLimit : scrollCall = ScStart(n)

ScLoopCond(sc) ==
    sc.scrollCount < sc.maxScrolls /\ sc.noChangeCount < StallLimit

\* A faulty variant: the stall counter is never reset.
scrollIterationNoReset(sc, previousHeight, newHeight) ==
    [sc EXCEPT !.previousHeight = previousHeight,
               !.scrollCount = @ + 1,
               !.noChangeCount = IF newHeight = previousHeight THEN @ + 1
                                 ELSE @,
               !.stalls = Append(@, newHeight = previousHeight)]

\* One pass through the loop body: the height is read, the page is
\* scrolled, and after the delay the height is read again.
scrollIteration(sc, previousHeight, newHeight) ==
    [sc EXCEPT !.previousHeight = previousHeight,
               !.scrollCount = @ + 1,
               !.noChangeCount = IF newHeight = previousHeight THEN @ + 1
                                 ELSE 0,
               !.stalls = Append(@, newHeight = previousHeight)]

ScrollIteration ==
    /\ scrollCall.pc = "loop"
    /\ ScLoopCond(scrollCall)
    /\ \E previousHeight \in ScrollHeights, newHeight \in ScrollHeights :
          scrollCall' = scrollIteration(scrollCall, previousHeight, newHeight)
    /\ UNCHANGED <<pwVars, runVars, eaVars, saVars, utVars, shutdown,
                   articleTask>>

\* page.evaluate or page.waitForTimeout rejects inside the loop: nothing
\* catches it.
ScrollThrows ==
    /\ scrollCall.pc = "loop"
    /\ ScLoopCond(scrollCall)
    /\ scrollCall' = [scrollCall EXCEPT !.pc = "threw"]
    /\ UNCHANGED <<pwVars, runVars, eaVars, saVars, utVars, shutdown,
                   articleTask>>

\* The loop condition is false: handleInfiniteScroll returns.
ScrollReturn ==
    /\ scrollCall.pc = "loop"
    /\ ~ScLoopCond(scrollCall)
    /\ scrollCall' = [scrollCall EXCEPT !.pc = "returned"]
    /\ UNCHANGED <<pwVars, runVars, eaVars, saVars, utVars, shutdown,
                   articleTask>>

ScNext == ScrollIteration \/ ScrollThrows \/ ScrollReturn

(***************************************************************************)
(* gracefulShutdown (main.js) against a running crawl                      *)
(***************************************************************************)
\* The crawl is reduced to what the signal handler can interfere with: the
\* requests still queued, the attempt in flight and the two resources that
\* cleanup() releases.  The crawler is the framework's: teardown() closes
\* the browser and aborts the pool, which starts no further request and
\* does not wait for the one that is running; pushData on a dropped
\* dataset rejects.
MaxQueued == 3

\* Where the attempt in flight stands:
\*   "none"  no request is being handled
\*   "page"  handleRequest awaits an operation on the page (the navigation,
\*           detectPaywall, scrapeArticle)
\*   "push"  handleArticlePage has the record and awaits dataset.pushData
\* startedAfterSignal, cutShort and recordsAtDrop are history: requests
\* started after the signal, whether an attempt was in flight when the
\* browser was closed, and the records the dataset held when it was dropped.
NotDropped == 0 - 1

SdStart(n) ==
    [queued |-> n, attempt |-> "none", signal |-> FALSE,
     browser |-> "open", store |-> "open", exited |-> FALSE,
     records |-> 0, startedAfterSignal |-> 0, cutShort |-> FALSE,
     recordsAtDrop |-> NotDropped]

SdIdle == shutdown = SdStart(0)

SdInit == \E n \in 1..MaxQueued : shutdown = SdStart(n)

\* The crawler takes the next request and navigates.
SdStartTask ==
    /\ ~shutdown.exited
    /\ shutdown.browser = "open"
    /\ shutdown.attempt = "none"
    /\ shutdown.queued > 0
    /\ shutdown' =
          [shutdown EXCEPT
              !.queued = @ - 1,
              !.attempt = "page",
              !.startedAfterSignal = IF shutdown.signal THEN @ + 1 ELSE @]
    /\ UNCHANGED <<pwVars, runVars, eaVars, saVars, utVars, articleTask,
                   scrollCall>>

\* The awaited page operation settles.  On an open browser the handler
\* goes on to its record or throws (or skips, or the page is no article);
\* on a closed browser the operation rejects, which the handler lets
\* through or, in the last step of scrapeArticle (extractPublicationInfo's
\* catch returns null), swallows, so that scrapeArticle returns its record.
SdPageSettles ==
    /\ ~shutdown.exited
    /\ shutdown.attempt = "page"
    /\ \E next \in {"push", "none"} :
          shutdown' = [shutdown EXCEPT !.attempt = next]
    /\ UNCHANGED <<pwVars, runVars, eaVars, saVars, utVars, articleTask,
                   scrollCall>>

\* dataset.pushData({type: 'article', ...}) settles.
SdPushData ==
    /\ ~shutdown.exited
    /\ shutdown.attempt = "push"
    /\ shutdown' =
          [shutdown EXCEPT
              !.attempt = "none",
              !.records = IF shutdown.store = "open" THEN @ + 1 ELSE @]
    /\ UNCHANGED <<pwVars, runVars, eaVars, saVars, utVars, articleTask,
                   scrollCall>>

\* SIGINT or SIGTERM: gracefulShutdown logs and calls scraper.cleanup(),
\* which calls this.crawler.teardown() before it yields.
SdSignal ==
    /\ ~shutdown.signal
    /\ shutdown' =
          [shutdown EXCEPT
              !.signal = TRUE,
              !.browser = "released",
              !.cutShort = shutdown.attempt # "none"]
    /\ UNCHANGED <<pwVars, runVars, eaVars, saVars, utVars, articleTask,
                   scrollCall>>

\* cleanup() after teardown() resolved: this.dataset.drop().
SdDatasetDrop ==
    /\ shutdown.signal /\ ~shutdown.exited
    /\ shutdown.store = "open"
    /\ shutdown' = [shutdown EXCEPT !.store = "dropped",
                                    !.recordsAtDrop = shutdown.records]
    /\ UNCHANGED <<pwVars, runVars, eaVars, saVars, utVars, articleTask,
                   scrollCall>>

\* cleanup() has returned (after the drop, or from its catch when teardown
\* or drop rejected): process.exit(0).
SdExit ==
    /\ shutdown.signal /\ ~shutdown.exited
    /\ shutdown' = [shutdown EXCEPT !.exited = TRUE]
    /\ UNCHANGED <<pwVars, runVars, eaVars, saVars, utVars, articleTask,
                   scrollCall>>

SdNext ==
    \/ SdStartTask \/ SdPageSettles \/ SdPushData
    \/ SdSignal \/ SdDatasetDrop \/ SdExit

vars == <<pwVars, runVars, eaVars, saVars, utVars, xVars>>

\* The scraper before scrape() is called, for the specifications that do not
\* run it.
RunIdle ==
    /\ input = [maxPosts |-> 1, sortBy |-> "latest", tags |-> {},
                dateRange |-> NoDateRange, premiumContent |-> FALSE]
    /\ site = StaticSite
    /\ pc = "start"
    /\ queue = <<>>
    /\ seen = {}
    /\ retryCount = [u \in Urls |-> 0]
    /\ cur = 0
    /\ attempt = 0
    /\ failing = 0
    /\ dataset = <<>>
    /\ stats = StatsStart
    /\ result = NoResult
    /\ failedTasks = {}
    /\ flaky = {}
    /\ EaIdle

\* The utilities before they are used, for the specifications that do not
\* explore them.
UtRest ==
    /\ PmIdle /\ RotIdle /\ RlIdle /\ RtIdle /\ ClIdle /\ ArIdle /\ ApIdle
    /\ DtIdle

XIdle == SdIdle /\ AtIdle /\ ScIdle

UtIdle == UtRest /\ XIdle

\* The scraper and the detector at rest, for the specifications of the
\* utilities.
ScraperIdle == PwInit /\ RunIdle /\ SaIdle /\ XIdle

\* The detector alone: calls of its three entry points in any order.
PaywallInit == PwInit /\ RunIdle /\ SaIdle /\ UtIdle
SpecPaywall == PaywallInit /\ [][PwNext]_vars

\* The scroll loop alone; an iteration that can be made is made.
SaInit == PwInit /\ RunIdle /\ SaIdle /\ UtIdle
SpecScroll == SaInit /\ [][SaNext]_vars /\ WF_vars(SaNext)

Init == RunInit /\ PwInit /\ SaIdle /\ UtIdle
Next == RunNext
Spec == Init /\ [][Next]_vars

\* The crawler serves the queue until it is empty and scrape() then returns:
\* a step that can be taken is taken.
FairSpec == Init /\ [][Next]_vars /\ WF_vars(Next)

\* The ProxyManager alone: its methods in any order.
ProxyInit ==
    /\ ScraperIdle /\ PmInit
    /\ RotIdle /\ RlIdle /\ RtIdle /\ ClIdle /\ ArIdle /\ ApIdle /\ DtIdle
SpecProxy == ProxyInit /\ [][PmNext]_vars

\* The requests of a crawl as the preNavigationHooks meet them.
RotationInit ==
    /\ ScraperIdle /\ RotInit
    /\ RlIdle /\ RtIdle /\ ClIdle /\ ArIdle /\ ApIdle /\ DtIdle
SpecRotation == RotationInit /\ [][RotNext]_vars

\* The RateLimiter alone.
RateLimiterInit ==
    /\ ScraperIdle /\ RlInit
    /\ PmIdle /\ RotIdle /\ RtIdle /\ ClIdle /\ ArIdle /\ ApIdle /\ DtIdle
SpecRateLimiter == RateLimiterInit /\ [][RlNext]_vars

\* One call of a retry wrapper.
RetryInit ==
    /\ ScraperIdle /\ RtInit
    /\ PmIdle /\ RotIdle /\ RlIdle /\ ClIdle /\ ArIdle /\ ApIdle /\ DtIdle
SpecRetry == RetryInit /\ [][RtNext]_vars

\* The dispatch of one url.
ClassifyInit ==
    /\ ScraperIdle /\ ClInit
    /\ PmIdle /\ RotIdle /\ RlIdle /\ RtIdle /\ ArIdle /\ ApIdle /\ DtIdle
SpecClassify == ClassifyInit /\ [][ClNext]_vars

\* One article page scraped.
ArticleInit ==
    /\ ScraperIdle /\ ArInit
    /\ PmIdle /\ RotIdle /\ RlIdle /\ RtIdle /\ ClIdle /\ ApIdle /\ DtIdle
SpecArticle == ArticleInit /\ [][ArNext]_vars

\* The profile of one author page extracted.
ProfileInit ==
    /\ ScraperIdle /\ ApInit
    /\ PmIdle /\ RotIdle /\ RlIdle /\ RtIdle /\ ClIdle /\ ArIdle /\ DtIdle
SpecProfile == ProfileInit /\ [][ApNext]_vars

\* One date text normalised.
DateInit ==
    /\ ScraperIdle /\ DtInit
    /\ PmIdle /\ RotIdle /\ RlIdle /\ RtIdle /\ ClIdle /\ ArIdle /\ ApIdle
SpecDate == DateInit /\ [][DtNext]_vars

\* A crawl that a stop signal can interrupt.
ShutdownInit ==
    /\ PwInit /\ RunIdle /\ SaIdle /\ UtRest
    /\ SdInit /\ AtIdle /\ ScIdle
SpecShutdown == ShutdownInit /\ [][SdNext]_vars

\* One article page handled.
ArticleTaskInit ==
    /\ PwInit /\ RunIdle /\ SaIdle /\ UtRest
    /\ SdIdle /\ AtInit /\ ScIdle
SpecArticleTask == ArticleTaskInit /\ [][AtNext]_vars

\* One call of handleInfiniteScroll.
ScrollCallInit ==
    /\ PwInit /\ RunIdle /\ SaIdle /\ UtRest
    /\ SdIdle /\ AtIdle /\ ScInit
SpecScrollCall == ScrollCallInit /\ [][ScNext]_vars

\* Inputs of the author-page handling that is explored on its own.
AuthorInputs ==
    [maxPosts : 1..MaxPosts, sortBy : {"latest", "oldest", "popular"},
     tags : {{}, {"ai"}},
     dateRange : {NoDateRange, [given |-> TRUE, start |-> 2, end |-> 0],
                  [given |-> TRUE, start |-> 0, end |-> 2]},
     premiumContent : BOOLEAN]

\* The crawler has delivered the author url, the first request of a run, to
\* handleRequest; the site and the input are any.
AuthorInit ==
    /\ input \in AuthorInputs
    /\ site \in Sites
    /\ pc = "crawling"
    /\ queue = <<>>
    /\ seen = {SeedUrl}
    /\ retryCount = [u \in Urls |-> 0]
    /\ cur = SeedUrl
    /\ attempt = 0
    /\ failing = 0
    /\ dataset = <<>>
    /\ stats = StatsStart
    /\ result = NoResult
    /\ failedTasks = {}
    /\ flaky = {SeedUrl}
    /\ EaIdle
    /\ PwInit
    /\ SaIdle
    /\ UtIdle

AuthorNext == StartAuthorScrape \/ EaIterate \/ AuthorThrows \/ AuthorScraped

SpecAuthor == AuthorInit /\ [][AuthorNext]_vars

(***************************************************************************)
(* Claims about a run of scrape(), checked under Spec and FairSpec         *)
(***************************************************************************)
NoDuplicates(list) ==
    \A i, j \in 1..Len(list) : list[i] = list[j] => i = j

C3_ErrorsCountFailedTasks ==
    /\ stats.errors + (IF failing # 0 THEN 1 ELSE 0) = Cardinality(failedTasks)
    /\ pc \in {"results", "returned"} => stats.errors = Cardinality(failedTasks)

\* A request was delivered maxRequestRetries + 1 times, failed each time,
\* and the run has ended.
C3_Witness ==
    /\ pc = "returned"
    /\ failedTasks # {}
    /\ \E u \in failedTasks : retryCount[u] = maxRequestRetries
    /\ result.stats.errors = 1

SummaryUrls(articles) == [i \in 1..Len(articles) |-> articles[i].url]

\* The urls of a list in order of first occurrence.
RECURSIVE DistinctInOrder(_)
DistinctInOrder(list) ==
    IF list = <<>> THEN <<>>
    ELSE LET front == DistinctInOrder(SubSeq(list, 1, Len(list) - 1))
             x == list[Len(list)]
         IN IF \E i \in 1..Len(front) : front[i] = x THEN front
            ELSE Append(front, x)

Range(list) == {list[i] : i \in 1..Len(list)}

\* The author page has been handled with no tag and no date filter, and it
\* yielded at least maxPosts distinct summaries.
AuthorPageYieldedEnough ==
    /\ eaPc = "done"
    /\ input.tags = {} /\ ~input.dateRange.given
    /\ Cardinality(Range(SummaryUrls(eaLoop.articles))) >= input.maxPosts

C6_AtMostMaxScrollsIterations ==
    eaIter <= maxScrolls

\* loadMoreArticles reported true every time, the page never yielded a
\* summary, and the loop ended after maxScrolls iterations.
C6_Witness ==
    /\ eaPc = "done"
    /\ site.endless
    /\ eaIter = maxScrolls
    /\ eaLoop.hasMore
    /\ eaLoop.articles = <<>>

(***************************************************************************)
(* Claims about the standalone scroll loop, checked under SpecScroll       *)
(***************************************************************************)

\* C7: the scroll loop of the standalone scrapeAuthor ends, whatever the
\* page heights and the post lists are.
C7_ScrollLoopEnds ==
    <>(saPc \in {"done", "threw"})

(***************************************************************************)
(* Claims about the paywall detector, checked under SpecPaywall            *)
(***************************************************************************)

\* C8: every PaywallResult returned by detectPaywall, the one of the catch
\* branch included, has its confidence within [0, 1] (0..100 hundredths), and
\* its confidence is 0 exactly when hasPaywall is false.
C8_ConfidenceMatchesHasPaywall ==
    pwInfo.op = "detect" =>
        /\ 0 <= pwInfo.confidence /\ pwInfo.confidence <= ConfidenceMax
        /\ (pwInfo.confidence = 0) <=> (pwInfo.hasPaywall = FALSE)

\* All five detectors fired: 5 x 0.25 exceeds 1 before the cap.
C8_Witness ==
    /\ pwInfo.op = "detect"
    /\ ~pwInfo.error
    /\ Len(SelectSeqNonNull(pwInfo.indicators)) = NumDetectors

\* The precedence the documentation states, highest first.
PaywallPrecedence ==
    <<"premium", "member_only", "subscription_prompt", "login_required",
      "content_truncation">>

TagsPresent(indicators) ==
    {indicators[i] : i \in 1..Len(indicators)} \ {Null}

HighestPresent(indicators) ==
    LET present == TagsPresent(indicators)
        ranks == {r \in 1..Len(PaywallPrecedence) : PaywallPrecedence[r] \in present}
    IN IF present = {} THEN Null
       ELSE IF ranks = {} THEN "unknown"
       ELSE PaywallPrecedence[CHOOSE r \in ranks : \A q \in ranks : r <= q]

SwapSlots(indicators, i, j) ==
    [k \in 1..Len(indicators) |->
        IF k = i THEN indicators[j] ELSE IF k = j THEN indicators[i]
        ELSE indicators[k]]

\* C9: determinePaywallType returns the highest-precedence type among the
\* non-null indicators (premium > member_only > subscription_prompt >
\* login_required > content_truncation > unknown), and exchanging any two
\* indicator slots does not change the result.
C9_TypeByPrecedence ==
    pwIndicators # <<>> =>
        /\ pwType = HighestPresent(pwIndicators)
        /\ \A i, j \in 1..Len(pwIndicators) :
              determinePaywallType(SwapSlots(pwIndicators, i, j)) = pwType

\* login_required in an earlier slot than premium still resolves to premium.
C9_Witness ==
    /\ pwIndicators # <<>>
    /\ pwIndicators[1] = "login_required"
    /\ pwIndicators[2] = "subscription_prompt"
    /\ pwIndicators[5] = "premium"
    /\ pwType = "premium"

DedicatedHandlerTypes ==
    {"premium", "member_only", "subscription_prompt", "login_required"}

\* C10: handlePaywall never raises: for every paywall type and every failure
\* of the page operations it returns a result with a boolean success, and a
\* type without a dedicated handler gets success = false.
C10_HandleNeverRaises ==
    pwHandled.op = "handle" =>
        /\ pwHandled.result.raised = FALSE
        /\ pwHandled.result.success \in BOOLEAN
        /\ pwHandled.paywallType \notin DedicatedHandlerTypes
              => pwHandled.result.success = FALSE

\* Graceful handling is on, the type is member_only and the page operation
\* of its handler failed: the call returned success = false.
C10_Witness ==
    /\ pwHandled.op = "handle"
    /\ pwHandled.graceful
    /\ pwHandled.pageFailed
    /\ pwHandled.paywallType = "member_only"
    /\ pwHandled.result.raised = FALSE
    /\ pwHandled.result.success = FALSE

\* C11: when every proxy of the pool is marked failed, the next
\* getNextProxy() call empties the failed set and returns the first proxy
\* of the list (index 0), whatever the current index was.  (getNextProxy has
\* no statement that throws.)
AllProxiesFailedBefore ==
    /\ pmLast.op = "getNextProxy"
    /\ proxyManager.useRotatingProxies
    /\ Len(proxyManager.proxyList) > 0
    /\ pmLast.failedBefore = Range(proxyManager.proxyList)

C11_AllFailedReturnsFirstProxy ==
    AllProxiesFailedBefore =>
        /\ proxyManager.failedProxies = {}
        /\ pmLast.ret = proxyManager.proxyList[1]

C13_TokensWithinBucket ==
    /\ rateLimiter.tokens >= 0
    /\ rateLimiter.tokens <= rateLimiter.requestsPerMinute * MsPerMinute

\* C14: in retry(), no delay waited before a re-attempt exceeds maxDelay,
\* and no delay is shorter than the one waited before it.
C14_BackoffCappedAndMonotone ==
    retryCall.fn = "retry" =>
        \A i \in 1..Len(retryCall.waits) :
            /\ retryCall.waits[i] <= retryCall.maxDelay
            /\ i > 1 => retryCall.waits[i - 1] <= retryCall.waits[i]

\* C15: retry() and withRetry() invoke the operation at most maxRetries
\* times; they return at the first success, with no invocation and no wait
\* after it; when every attempt threw they throw an error that carries the
\* error of the last attempt, and they return only after a success.
C15_RetryReturnsFirstSuccessOrLastError ==
    LET n == Len(retryCall.invoked)
    IN /\ n <= retryCall.maxRetries
       /\ \A i \in 1..(n - 1) : retryCall.invoked[i] # "ok"
       /\ retryCall.pc = "returned" <=>
              (n > 0 /\ retryCall.invoked[n] = "ok")
       /\ retryCall.pc = "returned" => Len(retryCall.waits) = n - 1
       /\ (n > 0 /\ n = retryCall.maxRetries /\ retryCall.invoked[n] # "ok")
              => /\ retryCall.pc = "threw"
                 /\ retryCall.thrown = retryCall.invoked[n]
       /\ retryCall.pc = "threw" => n = retryCall.maxRetries

\* Every attempt failed, the first and the last with different errors.
C15_Witness ==
    /\ retryCall.fn = "retry"
    /\ retryCall.pc = "threw"
    /\ Len(retryCall.invoked) = MaxAttempts
    /\ retryCall.invoked[1] # retryCall.invoked[MaxAttempts]
    /\ retryCall.thrown = retryCall.invoked[MaxAttempts]

\* C16: handleRequest dispatches every url as exactly one of author,
\* article and unknown, and as author only a url that has a '/@' segment
\* and matches none of the article patterns.
C16_AuthorOnlyWithoutArticlePattern ==
    classified.kind # "none" =>
        /\ classified.kind \in {"author", "article", "unknown"}
        /\ classified.kind = "author" =>
              /\ IncludesText(classified.text, <<"/","@">>)
              /\ ~isArticleText(classified.text)

\* C17, as stated: when the structured state is present and parsing it
\* throws, scrapeArticle returns a record built from the DOM whose content
\* is populated from the DOM blocks.
MalformedStateScraped ==
    /\ articleCall.page.apollo = "malformed"
    /\ articleCall.pc = "returned"

C18_ProfileDefaultsOnFailure ==
    LET page == profileCall.page
        info == profileCall.info
        failed == ~ExtractionSucceeds(profileCall.variant, page)
    IN (profileCall.pc \in {"returned", "threw"} /\ (~page.appear \/ failed))
       => /\ profileCall.pc = "returned"
          /\ info.name \in {"", page.name}
          /\ info.bio \in {"", page.bio}
          /\ info.username \in {"", page.username}
          /\ info.followers \in {0, parseCount(page.followers)}
          /\ info.following \in {0, parseCount(page.following)}
          /\ failed => info = NoAuthorInfo

\* C19: when the page has no reading-time text, the reading time of the
\* record is ceil(wordCount / 200) of the extracted content.
C19_ReadingTimeFromWordCount ==
    /\ (/\ articleCall.pc = "returned"
        /\ articleCall.includeContent
        /\ articleCall.info.readTime = NoText)
       => articleCall.record.readTime =
              calculateReadTime(articleCall.record.content.wordCount)
    /\ (articleCall.pc = "formatted" /\ articleCall.includeContent)
       => articleCall.read_time =
              calculateReadTime(articleCall.content.wordCount)

\* C20: parseArticleDate and formatDate do not throw, and return null for
\* every argument that is neither a date the patterns or Date can read nor
\* 'N unit ago' with a unit of the switch.
RecognisedDate ==
    /\ dateCall.isString
    /\ \/ FirstParsedPattern(dateCall.text, dateCall.lenient) # 0
       \/ DateIsValid(dateCall.text, dateCall.lenient)
       \/ /\ MatchRelative(dateCall.text) # NoMatch
          /\ MatchRelative(dateCall.text)[2] \in RecognisedUnits

C20_UnrecognisedDateGivesNull ==
    dateCall.fn # "none" =>
        /\ ~dateCall.threw
        /\ dateCall.ret # NullDate => RecognisedDate

(***************************************************************************)
(* Claims about the stop signal, checked under SpecShutdown                *)
(***************************************************************************)
\* C21: after SIGINT or SIGTERM no new navigation is started, the attempt in
\* flight finishes or times out before the browser and the dataset are
\* released, and no record is written to the store after the release.
C21_StopSignalDrainsGracefully ==
    /\ shutdown.startedAfterSignal = 0
    /\ ~shutdown.cutShort
    /\ shutdown.recordsAtDrop # NotDropped =>
          shutdown.records = shutdown.recordsAtDrop

(***************************************************************************)
(* Claims about a run, checked under Spec                                  *)
(***************************************************************************)
\* '/@handle/' of the author whose page is scraped.
HandlePath == <<"/","@","a","n","n","/">>

\* C22: every request that handleAuthorPage enqueued as an article, whose
\* url is '/@handle/' followed by a slug with or without a trailing
\* identifier, is dispatched to the article extractor and never to the
\* author extractor or to the unknown branch.
C22_ArticleTasksReachArticleExtractor ==
    (cur # 0 /\ cur # SeedUrl /\ IncludesText(UrlText[cur], HandlePath)) =>
        /\ DispatchedAs(UrlText[cur]) = "article"
        /\ eaPc # "loop"

\* Attempts made on a url so far: deliveries by the crawler, each with the
\* passes of handleRequest's loop.  Without this.logger.warning a delivery
\* makes one pass, so the attempts are the deliveries.
AttemptsMade(u) ==
    retryCount[u] + (IF cur = u THEN attempt + 1 ELSE 0)

\* C24: no request is attempted more than maxRetries = 3 times in a run,
\* the passes of handleRequest's own loop and the crawler's re-deliveries
\* taken together.
C24_AttemptsWithinCeiling ==
    \A u \in Urls : AttemptsMade(u) <= maxRetries

\* C29: in every state of a run successfulExtractions and paywallHits are
\* at most totalArticles, so that successRate and paywallRate lie in 0..100.
C29_CountersWithinTotal ==
    /\ stats.successfulExtractions <= stats.totalArticles
    /\ stats.paywallHits <= stats.totalArticles

\* A step in which handleRequest returns for an article request: the
\* request is neither queued again nor handed to failedRequestHandler.
ArticleTaskEnds ==
    /\ cur # 0 /\ cur # SeedUrl
    /\ cur' = 0
    /\ retryCount' = retryCount
    /\ failing' = 0

\* C30: an article request that is finished either has its record stored
\* with totalArticles incremented, or has errors incremented; none finishes
\* without changing totalArticles or errors.
C30_EveryArticleTaskCounted ==
    [][ArticleTaskEnds =>
          \/ /\ stats'.totalArticles = stats.totalArticles + 1
             /\ Len(dataset') = Len(dataset) + 1
             /\ stats'.errors = stats.errors
          \/ /\ stats'.errors = stats.errors + 1
             /\ stats'.totalArticles = stats.totalArticles
             /\ dataset' = dataset]_vars

(***************************************************************************)
(* Claims about the proxy pool, checked under SpecProxy                    *)
(***************************************************************************)
\* Proxies of the list that are not marked as failed.
HealthyProxies(list, failed) == Range(list) \ failed

\* C25: after a proxy has been marked as failed, the proxy of the next
\* request is another one whenever the list holds a proxy that is not
\* marked: getCurrentProxy(), which the request is made with, does not
\* return a proxy marked as failed.
C25_FailedProxyNotCurrent ==
    (/\ pmLast.op = "getCurrentProxy"
     /\ pmLast.ret # NoProxy
     /\ HealthyProxies(proxyManager.proxyList,
                       proxyManager.failedProxies) # {}) =>
        pmLast.ret \notin proxyManager.failedProxies

\* The proxy the while loop of getNextProxy stops at when some proxy of the
\* list is not in failed: the first such proxy met from index idx + 1 on,
\* going round the list.
FirstHealthyAfter(list, failed, idx) ==
    LET at(k) == (idx + k) % Len(list)
        k0 == CHOOSE k \in 1..Len(list) :
                  /\ list[at(k) + 1] \notin failed
                  /\ \A j \in 1..(k - 1) : list[at(j) + 1] \in failed
    IN [currentIndex |-> at(k0), proxy |-> list[at(k0) + 1], skipped |-> k0 - 1]

\* C26: when at least one proxy of the list is not marked as failed,
\* getNextProxy() returns the first proxy after the current index, in
\* cyclic order, that is not marked, leaves failedProxies unchanged and
\* sets currentIndex to the proxy returned.
C26_NextProxyIsFirstHealthy ==
    (/\ pmLast.op = "getNextProxy"
     /\ proxyManager.useRotatingProxies
     /\ HealthyProxies(proxyManager.proxyList, pmLast.failedBefore) # {}) =>
        LET first == FirstHealthyAfter(proxyManager.proxyList,
                                       pmLast.failedBefore,
                                       pmLast.indexBefore)
        IN /\ pmLast.ret = first.proxy
           /\ pmLast.ret \notin pmLast.failedBefore
           /\ proxyManager.failedProxies = pmLast.failedBefore
           /\ proxyManager.currentIndex = first.currentIndex
           /\ proxyManager.proxyList[proxyManager.currentIndex + 1]
                 = pmLast.ret

\* A call that passed over a failed proxy, and one that went round the end
\* of the list, have been made.
C26_Witness ==
    /\ pmLast.op = "getNextProxy"
    /\ proxyManager.useRotatingProxies
    /\ HealthyProxies(proxyManager.proxyList, pmLast.failedBefore) # {}
    /\ pmLast.failedBefore # {}
    /\ FirstHealthyAfter(proxyManager.proxyList, pmLast.failedBefore,
                         pmLast.indexBefore).skipped >= 1
    /\ proxyManager.currentIndex <= pmLast.indexBefore
    /\ pmLast.ret \notin pmLast.failedBefore

(***************************************************************************)
(* Claims about one article page, checked under SpecArticleTask            *)
(***************************************************************************)
\* The page was detected as paywalled and handlePaywall reported
\* success = false.
PaywallNotHandled(r) ==
    r.paywallInfo.hasPaywall /\ ~r.paywallResult.success

RECURSIVE TrailingStalls(_)
TrailingStalls(stalls) ==
    IF stalls = <<>> \/ ~stalls[Len(stalls)] THEN 0
    ELSE 1 + TrailingStalls(SubSeq(stalls, 1, Len(stalls) - 1))

\* Scrolls i..(i + StallLimit - 1) all left the height unchanged.
StallRunAt(stalls, i) ==
    \A k \in i..(i + StallLimit - 1) :
        k >= 1 /\ k <= Len(stalls) /\ stalls[k]

\* C27: handleInfiniteScroll stops exactly when 3 consecutive scrolls have
\* left the height unchanged or maxScrolls scrolls have been made,
\* whichever comes first; a scroll that changes the height resets the
\* stall counter, so stalls that are not consecutive never end the loop.
C27_StopsAtThreeConsecutiveStalls ==
    LET sc == scrollCall
        n == Len(sc.stalls)
    IN /\ n = sc.scrollCount
       /\ sc.scrollCount <= sc.maxScrolls
       /\ sc.noChangeCount = TrailingStalls(sc.stalls)
       /\ sc.noChangeCount <= StallLimit
       /\ \A i \in 1..n : StallRunAt(sc.stalls, i) => i + StallLimit - 1 = n
       /\ sc.pc = "returned" =>
             \/ sc.scrollCount = sc.maxScrolls
             \/ StallRunAt(sc.stalls, n - StallLimit + 1)
       /\ sc.pc = "loop" =>
             (ENABLED ScrollIteration <=>
                 /\ sc.scrollCount < sc.maxScrolls
                 /\ ~StallRunAt(sc.stalls, n - StallLimit + 1))

\* A call has returned before maxScrolls on three consecutive stalls, after
\* earlier stalls that a change of height had reset.
C27_Witness ==
    /\ scrollCall.pc = "returned"
    /\ scrollCall.scrollCount < scrollCall.maxScrolls
    /\ scrollCall.noChangeCount = StallLimit
    /\ \E i \in 1..(Len(scrollCall.stalls) - StallLimit) :
          /\ scrollCall.stalls[i]
          /\ ~scrollCall.stalls[i + 1]

(***************************************************************************)
(* Claims about the date filter, checked under SpecAuthor                  *)
(***************************************************************************)
\* The article's date can be read and lies before the start or after the
\* end of the range; a start or an end of 0 is not given.
OutsideDateRange(a, dateRange) ==
    /\ a.date # 0
    /\ \/ dateRange.start # 0 /\ a.date < dateRange.start
       \/ dateRange.end # 0 /\ a.date > dateRange.end

InsideDateRange(articles, dateRange) ==
    LET keep(a) == ~OutsideDateRange(a, dateRange)
    IN SelectSeq(articles, keep)

\* C28: with a dateRange set, filterArticles keeps every article whose
\* date is empty or cannot be parsed and drops an article with a parseable
\* date exactly when the date is before dateRange.start or after
\* dateRange.end (no tag is asked for; the result is cut to maxPosts).
C28_DateFilterFailsOpen ==
    (eaPc = "done" /\ input.dateRange.given /\ input.tags = {}) =>
        LET kept == InsideDateRange(eaLoop.articles, input.dateRange)
        IN /\ Range(eaFiltered) \subseteq Range(kept)
           /\ Len(eaFiltered) = Min(Len(kept), input.maxPosts)
           /\ Len(kept) <= input.maxPosts =>
                 Range(eaFiltered) = Range(kept)
           /\ \A i \in 1..Len(eaFiltered) :
                 ~OutsideDateRange(eaFiltered[i], input.dateRange)

\* The filter has kept an article without a readable date and dropped one
\* whose date is outside the range.
C28_Witness ==
    /\ eaPc = "done" /\ input.dateRange.given /\ input.tags = {}
    /\ \E i \in 1..Len(eaFiltered) : eaFiltered[i].date = 0
    /\ \E i \in 1..Len(eaLoop.articles) :
          /\ OutsideDateRange(eaLoop.articles[i], input.dateRange)
          /\ eaLoop.articles[i] \notin Range(eaFiltered)
    /\ Len(InsideDateRange(eaLoop.articles, input.dateRange))
          <= input.maxPosts

====
